---------------------------- MODULE Spec2Model ----------------------------
(***************************************************************************)
(* A model of the commander dispatch engine (package commander and its     *)
(* utils helpers): RunCLI's dispatch loop, the flag surface built from the *)
(* `commander` field tags, the standard flag parser it drives, subcommand  *)
(* resolution, command lookup and the coercion and invocation of a command *)
(* handler.                                                                *)
(*                                                                         *)
(* Text (tokens, tags, flag and method names) is a sequence of one-        *)
(* character strings, so that splitting, normalising, parsing and JSON     *)
(* encoding are computed character by character as the code computes them. *)
(***************************************************************************)
EXTENDS Integers, Sequences, FiniteSets, TLC

(***************************************************************************)
(* Bound of the model: the longest argument list handed to RunCLI.         *)
(***************************************************************************)
MaxArgs == 4

----------------------------------------------------------------------------
(* Text helpers: the parts of package strings the code uses.                *)

\* strings.ToLower on one character (ASCII letters).
LowerMap ==
    [A |-> "a", B |-> "b", C |-> "c", D |-> "d", E |-> "e", F |-> "f",
     G |-> "g", H |-> "h", I |-> "i", J |-> "j", K |-> "k", L |-> "l",
     M |-> "m", N |-> "n", O |-> "o", P |-> "p", Q |-> "q", R |-> "r",
     S |-> "s", T |-> "t", U |-> "u", V |-> "v", W |-> "w", X |-> "x",
     Y |-> "y", Z |-> "z"]

ToLowerChar(c) == IF c \in DOMAIN LowerMap THEN LowerMap[c] ELSE c

\* strings.ToLower
ToLower(s) == [i \in 1..Len(s) |-> ToLowerChar(s[i])]

\* strings.Replace(s, c, "", -1): every occurrence of the character c removed.
RECURSIVE RemoveChar(_, _)
RemoveChar(s, c) ==
    IF s = <<>> THEN <<>>
    ELSE IF Head(s) = c THEN RemoveChar(Tail(s), c)
    ELSE <<Head(s)>> \o RemoveChar(Tail(s), c)

\* strings.Index(s, c) for a one-character separator, 1-based; 0 when absent.
IndexOf(s, c) ==
    IF \E i \in 1..Len(s) : s[i] = c
    THEN CHOOSE i \in 1..Len(s) : s[i] = c /\ \A j \in 1..(i - 1) : s[j] # c
    ELSE 0

\* strings.Split(s, sep) for a one-character separator: all the pieces.
RECURSIVE Split(_, _)
Split(s, sep) ==
    LET i == IndexOf(s, sep) IN
    IF i = 0 THEN <<s>>
    ELSE <<SubSeq(s, 1, i - 1)>> \o Split(SubSeq(s, i + 1, Len(s)), sep)

\* strings.SplitN(s, sep, 2): cut at the first separator only.
SplitN2(s, sep) ==
    LET i == IndexOf(s, sep) IN
    IF i = 0 THEN <<s>>
    ELSE <<SubSeq(s, 1, i - 1), SubSeq(s, i + 1, Len(s))>>

----------------------------------------------------------------------------
(* The constants of package commander and the text of the fixtures: field   *)
(* tags (tag_), method names (m_) and command-line tokens (t_).             *)

FlagDirective ==
    <<"f", "l", "a", "g">>
SubcommandDirective ==
    <<"s", "u", "b", "c", "o", "m", "m", "a", "n", "d">>
FlagStructDirective ==
    <<"f", "l", "a", "g", "s", "t", "r", "u", "c", "t">>
FlagSliceDirective ==
    <<"f", "l", "a", "g", "s", "l", "i", "c", "e">>
DefaultCommand ==
    <<"C", "o", "m", "m", "a", "n", "d", "e", "r", "D", "e", "f", "a", "u", "l", "t">>
tag_intflag ==
    <<"f", "l", "a", "g", "=", "i", "n", "t", "f", "l", "a", "g", ",", "A", "n", " ", "i", "n", "t">>
tag_subapp ==
    <<"s", "u", "b", "c", "o", "m", "m", "a", "n", "d", "=", "s", "u", "b", "a", "p", "p", ",", "U", "s", "e", " ", "s", "u", "b", "a", "p", "p", " ", "c", "o", "m", "m", "a", "n", "d", "s">>
tag_subapp2 ==
    <<"s", "u", "b", "c", "o", "m", "m", "a", "n", "d", "=", "s", "u", "b", "a", "p", "p", "2", ",", "U", "s", "e", " ", "s", "u", "b", "a", "p", "p", " ", "c", "o", "m", "m", "a", "n", "d", "s">>
tag_subintflag ==
    <<"f", "l", "a", "g", "=", "s", "u", "b", "i", "n", "t", "f", "l", "a", "g", ",", "A", "n", "o", "t", "h", "e", "r", " ", "i", "n", "t">>
tag_subsubapp ==
    <<"s", "u", "b", "c", "o", "m", "m", "a", "n", "d", "=", "s", "u", "b", "s", "u", "b", "a", "p", "p", ",", "U", "s", "e", " ", "s", "u", "b", "s", "u", "b", "a", "p", "p", " ", "c", "o", "m", "m", "a", "n", "d", "s">>
tag_subcmd ==
    <<"s", "u", "b", "c", "o", "m", "m", "a", "n", "d", "=", "s", "u", "b", "c", "m", "d">>
tag_subcmd2 ==
    <<"s", "u", "b", "c", "o", "m", "m", "a", "n", "d", "=", "s", "u", "b", "c", "m", "d", "2">>
tag_anint ==
    <<"f", "l", "a", "g", "=", "a", "n", "i", "n", "t">>
tag_a ==
    <<"f", "l", "a", "g", "=", "a">>
tag_common ==
    <<"f", "l", "a", "g", "=", "c", "o", "m", "m", "o", "n">>
tag_b2 ==
    <<"f", "l", "a", "g", "=", "b", "2">>
tag_c2 ==
    <<"f", "l", "a", "g", "=", "c", "2">>
tag_flagstruct_cmd1 ==
    <<"f", "l", "a", "g", "s", "t", "r", "u", "c", "t", "=", "c", "m", "d", "1">>
tag_flagstruct_cmd2 ==
    <<"f", "l", "a", "g", "s", "t", "r", "u", "c", "t", "=", "c", "m", "d", "2">>
tag_flagstruct ==
    <<"f", "l", "a", "g", "s", "t", "r", "u", "c", "t">>
tag_toplevel ==
    <<"f", "l", "a", "g", "=", "t", "o", "p", "l", "e", "v", "e", "l", ",", "A", " ", "t", "o", "p", "l", "e", "v", "e", "l", " ", "b", "o", "o", "l">>
tag_stringflag ==
    <<"f", "l", "a", "g", "=", "s", "t", "r", "i", "n", "g", "f", "l", "a", "g", ",", "A", " ", "s", "t", "r", "i", "n", "g">>
tag_boolflag ==
    <<"f", "l", "a", "g", "=", "b", "o", "o", "l", "f", "l", "a", "g", ",", "A", " ", "b", "o", "o", "l">>
tag_innerint ==
    <<"f", "l", "a", "g", "=", "i", "n", "n", "e", "r", "i", "n", "t">>
tag_n ==
    <<"f", "l", "a", "g", "=", "n">>
tag_x ==
    <<"f", "l", "a", "g", "=", "x">>
tag_direct ==
    <<"s", "u", "b", "c", "o", "m", "m", "a", "n", "d", "=", "d", "i", "r", "e", "c", "t">>
tag_nested ==
    <<"s", "u", "b", "c", "o", "m", "m", "a", "n", "d", "=", "n", "e", "s", "t", "e", "d">>
tag_sub ==
    <<"s", "u", "b", "c", "o", "m", "m", "a", "n", "d", "=", "s", "u", "b">>
m_CLIName ==
    <<"C", "L", "I", "N", "a", "m", "e">>
m_OpOne ==
    <<"O", "p", "O", "n", "e">>
m_OpThree ==
    <<"O", "p", "T", "h", "r", "e", "e">>
m_OpTwo ==
    <<"O", "p", "T", "w", "o">>
m_OpVariadic ==
    <<"O", "p", "V", "a", "r", "i", "a", "d", "i", "c">>
m_PostFlagParse ==
    <<"P", "o", "s", "t", "F", "l", "a", "g", "P", "a", "r", "s", "e">>
m_SubApp ==
    <<"S", "u", "b", "A", "p", "p">>
m_OpDeep ==
    <<"O", "p", "D", "e", "e", "p">>
m_SubCmd ==
    <<"S", "u", "b", "C", "m", "d">>
m_Cmd1 ==
    <<"C", "m", "d", "1">>
m_Cmd2 ==
    <<"C", "m", "d", "2">>
m_Run ==
    <<"R", "u", "n">>
m_Sub ==
    <<"S", "u", "b">>
t_subapp ==
    <<"s", "u", "b", "a", "p", "p">>
t_subsubapp ==
    <<"s", "u", "b", "s", "u", "b", "a", "p", "p">>
t_opdeep ==
    <<"o", "p", "d", "e", "e", "p">>
t_opthree ==
    <<"o", "p", "t", "h", "r", "e", "e">>
t_opone ==
    <<"o", "p", "o", "n", "e">>
t_test ==
    <<"t", "e", "s", "t">>
t_intflag ==
    <<"-", "-", "i", "n", "t", "f", "l", "a", "g">>
t_intflag_11 ==
    <<"-", "-", "i", "n", "t", "f", "l", "a", "g", "=", "1", "1">>
t_subintflag ==
    <<"-", "s", "u", "b", "i", "n", "t", "f", "l", "a", "g">>
t_10 ==
    <<"1", "0">>
t_opvariadic ==
    <<"o", "p", "v", "a", "r", "i", "a", "d", "i", "c">>
t_OP_two ==
    <<"O", "P", "_", "t", "w", "o">>
t_30 ==
    <<"3", "0">>
t_a ==
    <<"a">>
t_quoted ==
    <<"b", "\"", "\\", "c">>
t_subcmd ==
    <<"s", "u", "b", "c", "m", "d">>
t_subcmd2 ==
    <<"s", "u", "b", "c", "m", "d", "2">>
t_cmd1 ==
    <<"c", "m", "d", "1">>
t_cmd2 ==
    <<"c", "m", "d", "2">>
t_arg ==
    <<"a", "r", "g">>
t_first ==
    <<"f", "i", "r", "s", "t">>
t_common ==
    <<"-", "-", "c", "o", "m", "m", "o", "n">>
t_b2 ==
    <<"-", "-", "b", "2">>
t_c2 ==
    <<"-", "-", "c", "2", "=", "1">>
t_1 ==
    <<"1">>
t_0 ==
    <<"0">>
t_toplevel ==
    <<"-", "-", "t", "o", "p", "l", "e", "v", "e", "l">>
t_stringflag ==
    <<"-", "-", "s", "t", "r", "i", "n", "g", "f", "l", "a", "g", "=", "s">>
t_innerint ==
    <<"-", "-", "i", "n", "n", "e", "r", "i", "n", "t">>
t_7 ==
    <<"7">>
t_run ==
    <<"r", "u", "n">>
t_direct ==
    <<"d", "i", "r", "e", "c", "t">>
t_nested ==
    <<"n", "e", "s", "t", "e", "d">>
t_x ==
    <<"-", "-", "x">>
t_n ==
    <<"-", "-", "n">>
t_sub ==
    <<"s", "u", "b">>
t_y ==
    <<"y">>
t_dashdash ==
    <<"-", "-">>
t_true ==
    <<"t", "r", "u", "e">>
t_emptylist ==
    <<"[", "]">>
tag_intflag2 ==
    <<"f", "l", "a", "g", "=", "i", "n", "t", "f", "l", "a", "g", "2", ",", "A", "n", " ", "i", "n", "t">>
tag_boolflag2 ==
    <<"f", "l", "a", "g", "=", "b", "o", "o", "l", "f", "l", "a", "g", "2", ",", "A", " ", "b", "o", "o", "l">>
tag_dur ==
    <<"f", "l", "a", "g", "=", "d", "u", "r", ",", "A", " ", "d", "u", "r", "a", "t", "i", "o", "n">>
tag_otherdur ==
    <<"f", "l", "a", "g", "=", "o", "t", "h", "e", "r", "d", "u", "r", ",", "A", "n", "o", "t", "h", "e", "r", " ", "d", "u", "r", "a", "t", "i", "o", "n">>
tag_badflag ==
    <<"s", "u", "b", "c", "o", "m", "m", "a", "n", "d", "=", "b", "a", "d", "f", "l", "a", "g">>
tag_badsub ==
    <<"s", "u", "b", "c", "o", "m", "m", "a", "n", "d", "=", "b", "a", "d", "s", "u", "b">>
tag_flagstruct_a_b ==
    <<"f", "l", "a", "g", "s", "t", "r", "u", "c", "t", "=", "a", "=", "b">>
tag_flagslice_a_b ==
    <<"f", "l", "a", "g", "s", "l", "i", "c", "e", "=", "a", "=", "b">>
m_Wait ==
    <<"W", "a", "i", "t">>
m_Count ==
    <<"C", "o", "u", "n", "t">>
m_Small ==
    <<"S", "m", "a", "l", "l">>
t_intflag2 ==
    <<"-", "-", "i", "n", "t", "f", "l", "a", "g", "2">>
t_boolflag2 ==
    <<"-", "-", "b", "o", "o", "l", "f", "l", "a", "g", "2">>
t_dur ==
    <<"-", "-", "d", "u", "r">>
t_otherdur_3ms ==
    <<"-", "-", "o", "t", "h", "e", "r", "d", "u", "r", "=", "3", "m", "s">>
t_2s ==
    <<"2", "s">>
t_1_5ms ==
    <<"1", ".", "5", "m", "s">>
t_1x ==
    <<"1", "x">>
t_wait ==
    <<"w", "a", "i", "t">>
t_count ==
    <<"c", "o", "u", "n", "t">>
t_small ==
    <<"s", "m", "a", "l", "l">>
t_badflag ==
    <<"b", "a", "d", "f", "l", "a", "g">>
t_badsub ==
    <<"b", "a", "d", "s", "u", "b">>
t_Sub_App ==
    <<"S", "u", "b", "_", "A", "p", "p">>
t_subapp2 ==
    <<"s", "u", "b", "a", "p", "p", "2">>
t_CMD_1 ==
    <<"C", "M", "D", "-", "1">>
tag_v_commas ==
    <<"f", "l", "a", "g", "=", "v", ",", "f", "i", "r", "s", "t", ",", " ", "s", "e", "c", "o", "n", "d">>
tag_w_equals ==
    <<"f", "l", "a", "g", "=", "w", ",", "a", "=", "b">>
tag_sub_equals ==
    <<"s", "u", "b", "c", "o", "m", "m", "a", "n", "d", "=", "s", "u", "b", ",", "a", "=", "b">>
m_Tiny ==
    <<"T", "i", "n", "y">>
t_v ==
    <<"-", "-", "v">>
t_w ==
    <<"-", "-", "w">>
t_tiny ==
    <<"t", "i", "n", "y">>
t_300 ==
    <<"3", "0", "0">>
t_128 ==
    <<"1", "2", "8">>
t_minus_1 ==
    <<"-", "1">>
t_intflag_10 ==
    <<"-", "-", "i", "n", "t", "f", "l", "a", "g", "=", "1", "0">>
m_OpFour ==
    <<"O", "p", "F", "o", "u", "r">>
t_opfour ==
    <<"o", "p", "f", "o", "u", "r">>
t_map_testing ==
    <<"{", "\"", "t", "e", "s", "t", "\"", ":", " ", "\"", "t", "e", "s", "t", "i", "n", "g", "\"", "}">>
t_map_twice ==
    <<"{", "\"", "t", "e", "s", "t", "\"", ":", "\"", "t", "e", "s", "t", "i", "n", "g", "\"", ",", "\"", "t", "e", "s", "t", "\"", ":", "n", "u", "l", "l", "}">>
t_null ==
    <<"n", "u", "l", "l">>
tag_ratio ==
    <<"f", "l", "a", "g", "=", "r", "a", "t", "i", "o">>
tag_size ==
    <<"f", "l", "a", "g", "=", "s", "i", "z", "e">>
tag_labels ==
    <<"f", "l", "a", "g", "=", "l", "a", "b", "e", "l", "s">>
tag_on ==
    <<"f", "l", "a", "g", "=", "o", "n">>
t_ratio ==
    <<"-", "-", "r", "a", "t", "i", "o">>
t_2_1 ==
    <<"2", ".", "1">>
t_size_7 ==
    <<"-", "-", "s", "i", "z", "e", "=", "7">>
t_labels_ab ==
    <<"-", "-", "l", "a", "b", "e", "l", "s", "=", "{", "\"", "a", "\"", ":", "\"", "b", "\"", "}">>
t_on_true ==
    <<"-", "-", "o", "n", "=", "t", "r", "u", "e">>
t_4h ==
    <<"4", "h">>
t_otherdur ==
    <<"-", "-", "o", "t", "h", "e", "r", "d", "u", "r">>
m_Plain ==
    <<"P", "l", "a", "i", "n">>
m_Natural ==
    <<"N", "a", "t", "u", "r", "a", "l">>
t_plain ==
    <<"p", "l", "a", "i", "n">>
t_natural ==
    <<"n", "a", "t", "u", "r", "a", "l">>
t_40000 ==
    <<"4", "0", "0", "0", "0">>
t_70000 ==
    <<"7", "0", "0", "0", "0">>
t_3000000000 ==
    <<"3", "0", "0", "0", "0", "0", "0", "0", "0", "0">>
t_two32 ==
    <<"4", "2", "9", "4", "9", "6", "7", "2", "9", "6">>
t_two63 ==
    <<"9", "2", "2", "3", "3", "7", "2", "0", "3", "6", "8", "5", "4", "7", "7", "5", "8", "0", "8">>
t_two64 ==
    <<"1", "8", "4", "4", "6", "7", "4", "4", "0", "7", "3", "7", "0", "9", "5", "5", "1", "6", "1", "6">>
t_formfeed ==
    <<"\f">>
s_testing ==
    <<"t", "e", "s", "t", "i", "n", "g">>
----------------------------------------------------------------------------
(* Error values.  An error is the chain of its wrappers, outermost first;   *)
(* the nil error is the empty chain.  fmt.Errorf("...: %v", err) makes a    *)
(* new error that keeps only the text, so it is a chain of its own.         *)

Nil == <<>>

\* utils_test.go: var errTest = fmt.Errorf("ERROR")
errTest == <<"ERROR">>

\* type applicationError struct{ error }: the marker runCommand wraps a
\* handler's error in.
applicationError(err) == <<"applicationError">> \o err

\* isApplicationError that recognises no error as a handler's.
isApplicationErrorNever(err) == FALSE

isApplicationError(err) == err # Nil /\ Head(err) = "applicationError"

\* errors.WithStack / errors.Wrap / errors.Wrapf of github.com/pkg/errors: a
\* wrapper around a non-nil error, nil for nil.
WithStack(err) == IF err = Nil THEN Nil ELSE <<"withStack">> \o err

Wrap(err, msg) == IF err = Nil THEN Nil ELSE <<msg>> \o err

----------------------------------------------------------------------------
(* The application nodes.  A struct type is its fields in declaration order *)
(* (name, `commander` tag, kind), its exported methods in the order         *)
(* reflect lists them (sorted by name; name, parameter kinds, body) and     *)
(* whether it implements PostFlagParseHook.  The types of the repository's  *)
(* tests (utils_test.go, flags_test.go and MyStruct of the utils tests) are *)
(* as they are declared there, FlagTesterInner being the type without a    *)
(* name of FlagTesterNested.NestedNoPtr.  The others are added:            *)
(* NestedRunner is FlagTesterNested with a command Run over NestedTester,  *)
(* which is FlagTester with one more field, an inline flagstruct           *)
(* (FlagTesterDeeper), so that flags are nested two levels deep;           *)
(* DurationRunner is FlagDurationTester with three commands, one for each  *)
(* of the parameter types time.Duration, int64 and int8; the Dup types     *)
(* declare a flag name twice and DefSub has both a command named like the  *)
(* subcommand that leads to it and CommanderDefault; the Bad types carry a *)
(* flag or a subcommand tag without a payload and Loose a flagstruct and a *)
(* flagslice tag with two of them; the Hook types return an error from     *)
(* their hook, the Desc types have an equals sign or a comma in a          *)
(* description, IntSizes takes sized integers, IntWidths an int and a uint, *)
(* and Kinds has flags of the kinds float64, uint, map and pointer.        *)

Field(name, tag, kind) == [name |-> name, tag |-> tag, kind |-> kind]

Method(name, in, body) == [name |-> name, in |-> in, body |-> body]

StructType(fields, methods, hook) ==
    [fields |-> fields, methods |-> methods, hook |-> hook]

\* The types of utils_test.go; Application3B and Application3C are the types
\* without a name of the fields B and C of Application3.
UtilsTestTypes ==
    [Application |-> StructType(
        <<Field("count", <<>>, "int"),
          Field("postFlagHooked", <<>>, "bool"),
          Field("IntFlag", tag_intflag, "int"),
          Field("SubApp", tag_subapp, "ptr"),
          Field("SubApp2", tag_subapp2, "ptr")>>,
        <<Method(m_CLIName, <<>>, "Application.CLIName"),
          Method(m_OpOne, <<"string">>, "Application.OpOne"),
          Method(m_OpThree, <<>>, "Application.OpThree"),
          Method(m_OpTwo, <<"int">>, "Application.OpTwo"),
          Method(m_OpVariadic, <<"string", "slice">>, "Application.OpVariadic"),
          Method(m_PostFlagParse, <<>>, "Application.PostFlagParse")>>,
        TRUE),
     SubApplication |-> StructType(
        <<Field("count", <<>>, "int"),
          Field("SubIntFlag", tag_subintflag, "int"),
          Field("SubSubApp", tag_subsubapp, "ptr")>>,
        <<Method(m_OpFour, <<"map">>, "SubApplication.OpFour"),
          Method(m_OpThree, <<>>, "SubApplication.OpThree"),
          Method(m_SubApp, <<"string">>, "SubApplication.SubApp")>>,
        FALSE),
     SubSubApplication |-> StructType(
        <<Field("count", <<>>, "int")>>,
        <<Method(m_OpDeep, <<>>, "SubSubApplication.OpDeep")>>,
        FALSE),
     Application2 |-> StructType(
        <<Field("SubCmd", tag_subcmd, "ptr"),
          Field("SubCmd2", tag_subcmd2, "ptr")>>,
        <<>>,
        FALSE),
     SubCmd |-> StructType(
        <<>>,
        <<Method(m_SubCmd, <<"string", "string">>, "SubCmd.SubCmd")>>,
        FALSE),
     SubCmd2 |-> StructType(
        <<Field("Fl", tag_anint, "int")>>,
        <<Method(m_Cmd1, <<"string", "slice">>, "SubCmd2.Cmd1"),
          Method(DefaultCommand, <<"string">>, "SubCmd2.CommanderDefault")>>,
        FALSE),
     Application3 |-> StructType(
        <<Field("A", tag_a, "string"),
          Field("B", tag_flagstruct_cmd1, "struct"),
          Field("C", tag_flagstruct_cmd2, "struct")>>,
        <<Method(m_Cmd1, <<"string">>, "Application3.Cmd1"),
          Method(m_Cmd2, <<"int">>, "Application3.Cmd2")>>,
        FALSE),
     Application3B |-> StructType(
        <<Field("B1", tag_common, "string"),
          Field("B2", tag_b2, "string")>>,
        <<>>,
        FALSE),
     Application3C |-> StructType(
        <<Field("C1", tag_common, "string"),
          Field("C2", tag_c2, "string")>>,
        <<>>,
        FALSE)]

\* The types of flags_test.go; FlagTesterInner is the type without a name of
\* FlagTesterNested.NestedNoPtr.
FlagsTestTypes ==
    [FlagTester |-> StructType(
        <<Field("String", tag_stringflag, "string"),
          Field("Int", tag_intflag, "int"),
          Field("Bool", tag_boolflag, "bool")>>,
        <<>>,
        FALSE),
     FlagTesterNested |-> StructType(
        <<Field("Toplevel", tag_toplevel, "bool"),
          Field("Nested", tag_flagstruct, "ptr"),
          Field("NestedNoPtr", tag_flagstruct, "struct")>>,
        <<>>,
        FALSE),
     FlagTesterInner |-> StructType(
        <<Field("Int", tag_innerint, "int")>>,
        <<>>,
        FALSE),
     FlagDurationTester |-> StructType(
        <<Field("Duration", tag_dur, "duration"),
          Field("Nested", tag_flagstruct, "struct")>>,
        <<>>,
        FALSE),
     OtherFlagDurationTester |-> StructType(
        <<Field("Duration", tag_otherdur, "duration")>>,
        <<>>,
        FALSE),
     FlagTesterSliced |-> StructType(
        <<Field("Slice", FlagSliceDirective, "slice")>>,
        <<>>,
        FALSE),
     IntFlagStruct |-> StructType(
        <<Field("Value", tag_intflag2, "int")>>,
        <<>>,
        FALSE),
     BoolFlagStruct |-> StructType(
        <<Field("Value", tag_boolflag2, "bool")>>,
        <<>>,
        FALSE)]

\* MyStruct of the tests of utils.SetField and utils.GetFieldValue.
MyStructType ==
    [MyStruct |-> StructType(
        <<Field("B", <<>>, "bool"),
          Field("S", <<>>, "string"),
          Field("I", <<>>, "int"),
          Field("I8", <<>>, "int8"),
          Field("I16", <<>>, "int16"),
          Field("I32", <<>>, "int32"),
          Field("I64", <<>>, "int64"),
          Field("UI", <<>>, "uint"),
          Field("UI8", <<>>, "uint8"),
          Field("UI16", <<>>, "uint16"),
          Field("UI32", <<>>, "uint32"),
          Field("UI64", <<>>, "uint64"),
          Field("F32", <<>>, "float32"),
          Field("F64", <<>>, "float64"),
          Field("Slice", <<>>, "slice"),
          Field("Map", <<>>, "map"),
          Field("Duration", <<>>, "duration"),
          Field("Ptr", <<>>, "*bool"),
          Field("Unsupported", <<>>, "map[int]string")>>,
        <<>>,
        FALSE)]

\* The application types added to those of the repository.
AddedTypes ==
    [NestedRunner |-> StructType(
        <<Field("Toplevel", tag_toplevel, "bool"),
          Field("Nested", tag_flagstruct, "ptr"),
          Field("NestedNoPtr", tag_flagstruct, "struct")>>,
        <<Method(m_Run, <<>>, "NestedRunner.Run")>>,
        FALSE),
     NestedTester |-> StructType(
        <<Field("String", tag_stringflag, "string"),
          Field("Int", tag_intflag, "int"),
          Field("Bool", tag_boolflag, "bool"),
          Field("Deeper", tag_flagstruct, "struct")>>,
        <<>>,
        FALSE),
     FlagTesterDeeper |-> StructType(
        <<Field("X", tag_x, "int")>>,
        <<>>,
        FALSE),
     DupRoot |-> StructType(
        <<Field("N", tag_n, "int"),
          Field("Direct", tag_direct, "ptr"),
          Field("Nested", tag_nested, "ptr")>>,
        <<Method(m_PostFlagParse, <<>>, "DupRoot.PostFlagParse"),
          Method(m_Run, <<>>, "DupRoot.Run")>>,
        TRUE),
     DupDirect |-> StructType(
        <<Field("X1", tag_x, "int"),
          Field("X2", tag_x, "int")>>,
        <<Method(m_PostFlagParse, <<>>, "DupDirect.PostFlagParse"),
          Method(m_Run, <<>>, "DupDirect.Run")>>,
        TRUE),
     DupNested |-> StructType(
        <<Field("N", tag_n, "int"),
          Field("Inner", tag_flagstruct, "struct"),
          Field("X", tag_x, "int")>>,
        <<Method(m_PostFlagParse, <<>>, "DupNested.PostFlagParse"),
          Method(m_Run, <<>>, "DupNested.Run")>>,
        TRUE),
     DefApp |-> StructType(
        <<Field("Sub", tag_sub, "ptr")>>,
        <<>>,
        FALSE),
     DefSub |-> StructType(
        <<>>,
        <<Method(DefaultCommand, <<"string">>, "DefSub.CommanderDefault"),
          Method(m_Sub, <<"string">>, "DefSub.Sub")>>,
        FALSE),
     DurationRunner |-> StructType(
        <<Field("Duration", tag_dur, "duration"),
          Field("Nested", tag_flagstruct, "struct")>>,
        <<Method(m_Count, <<"int64">>, "DurationRunner.Count"),
          Method(m_Small, <<"int8">>, "DurationRunner.Small"),
          Method(m_Wait, <<"duration">>, "DurationRunner.Wait")>>,
        FALSE),
     BadRoot |-> StructType(
        <<Field("Flagged", tag_badflag, "ptr"),
          Field("Subbed", tag_badsub, "ptr")>>,
        <<Method(m_PostFlagParse, <<>>, "BadRoot.PostFlagParse"),
          Method(m_Run, <<>>, "BadRoot.Run")>>,
        TRUE),
     BadFlag |-> StructType(
        <<Field("N", tag_n, "int"),
          Field("F", FlagDirective, "int")>>,
        <<Method(m_PostFlagParse, <<>>, "BadFlag.PostFlagParse"),
          Method(m_Run, <<>>, "BadFlag.Run")>>,
        TRUE),
     BadSub |-> StructType(
        <<Field("S", SubcommandDirective, "ptr")>>,
        <<Method(m_PostFlagParse, <<>>, "BadSub.PostFlagParse"),
          Method(m_Run, <<>>, "BadSub.Run")>>,
        TRUE),
     Loose |-> StructType(
        <<Field("Opt", tag_flagstruct_a_b, "struct"),
          Field("Items", tag_flagslice_a_b, "slice")>>,
        <<Method(m_Run, <<>>, "Loose.Run")>>,
        FALSE),
     HookRoot |-> StructType(
        <<Field("N", tag_n, "int"),
          Field("Sub", tag_sub, "ptr")>>,
        <<Method(m_PostFlagParse, <<>>, "HookRoot.PostFlagParse"),
          Method(m_Run, <<>>, "HookRoot.Run"),
          Method(m_Sub, <<>>, "HookRoot.Sub")>>,
        TRUE),
     HookLeaf |-> StructType(
        <<Field("X", tag_x, "int")>>,
        <<Method(m_PostFlagParse, <<>>, "HookLeaf.PostFlagParse"),
          Method(m_Run, <<>>, "HookLeaf.Run")>>,
        TRUE),
     DescCommas |-> StructType(
        <<Field("V", tag_v_commas, "int")>>,
        <<Method(m_Run, <<>>, "DescCommas.Run")>>,
        FALSE),
     DescEquals |-> StructType(
        <<Field("W", tag_w_equals, "int")>>,
        <<Method(m_Run, <<>>, "DescEquals.Run")>>,
        FALSE),
     DescSubEquals |-> StructType(
        <<Field("S", tag_sub_equals, "ptr")>>,
        <<Method(m_Run, <<>>, "DescSubEquals.Run")>>,
        FALSE),
     IntSizes |-> StructType(
        <<>>,
        <<Method(m_Small, <<"int8">>, "IntSizes.Small"),
          Method(m_Tiny, <<"uint8">>, "IntSizes.Tiny")>>,
        FALSE),
     IntWidths |-> StructType(
        <<>>,
        <<Method(m_Natural, <<"uint">>, "IntWidths.Natural"),
          Method(m_Plain, <<"int">>, "IntWidths.Plain")>>,
        FALSE),
     Kinds |-> StructType(
        <<Field("Ratio", tag_ratio, "float64"),
          Field("Size", tag_size, "uint"),
          Field("Labels", tag_labels, "map"),
          Field("On", tag_on, "*bool")>>,
        <<Method(m_Run, <<>>, "Kinds.Run")>>,
        FALSE)]

\* Every struct type, by its name.
Types == UtilsTestTypes @@ FlagsTestTypes @@ MyStructType @@ AddedTypes

(***************************************************************************)
(* Values.  A pointer to a struct (or an addressable inline struct) is its  *)
(* static type and the object it points to, NilObj for a nil pointer: a nil *)
(* pointer stored in an interface keeps its type, as in Go.                 *)
(***************************************************************************)
NilObj == "nil"

Ptr(t, o) == [t |-> t, o |-> o]

\* A float: a decimal, or NaN, +Inf or -Inf.
Float(neg, digits, dp) ==
    [special |-> "", neg |-> neg, digits |-> digits, dp |-> dp]

SpecialFloat(name) ==
    [special |-> name, neg |-> name = "-Inf", digits |-> <<>>, dp |-> 0]

ZeroFloat == Float(FALSE, <<>>, 0)

\* A time.Duration: the sign and the decimal numeral of its nanoseconds,
\* without leading zeros and empty for zero.
Duration(neg, ns) == [neg |-> neg /\ ns # <<>>, ns |-> ns]

ZeroDuration == Duration(FALSE, <<>>)

\* A []string: nil, or its elements.
Slice(elems) == [nil |-> FALSE, elems |-> elems]

NilSlice == [nil |-> TRUE, elems |-> <<>>]

\* A map: nil, or the function from its keys to their values.
Map(kv) == [nil |-> FALSE, kv |-> kv]

NilMap == [nil |-> TRUE, kv |-> <<>>]

\* A pointer: nil, or the value it points to.
PtrTo(v) == [nil |-> FALSE, elem |-> v]

\* The nil pointer to a value of the type of v.
NilPtr(v) == [nil |-> TRUE, elem |-> v]

\* The objects the tests build: every fixture lives in the one heap, each
\* under its own root.
InitHeap ==
    [app |-> [count |-> 0, postFlagHooked |-> FALSE, IntFlag |-> 0,
              SubApp |-> Ptr("SubApplication", "app_SubApp"),
              SubApp2 |-> Ptr("SubApplication", NilObj)],
     app_SubApp |-> [count |-> 0, SubIntFlag |-> 0,
                     SubSubApp |-> Ptr("SubSubApplication", "app_SubSubApp")],
     app_SubSubApp |-> [count |-> 0],
     app2 |-> [SubCmd |-> Ptr("SubCmd", "app2_SubCmd"),
               SubCmd2 |-> Ptr("SubCmd2", "app2_SubCmd2")],
     app2_SubCmd |-> <<>>,
     app2_SubCmd2 |-> [Fl |-> 0],
     app3 |-> [A |-> <<>>,
               B |-> Ptr("Application3B", "app3_B"),
               C |-> Ptr("Application3C", "app3_C")],
     app3_B |-> [B1 |-> <<>>, B2 |-> <<>>],
     app3_C |-> [C1 |-> <<>>, C2 |-> <<>>],
     ftn |-> [Toplevel |-> FALSE,
              Nested |-> Ptr("FlagTester", "ftn_Nested"),
              NestedNoPtr |-> Ptr("FlagTesterInner", "ftn_NoPtr")],
     ftn_Nested |-> [String |-> <<>>, Int |-> 0, Bool |-> FALSE],
     ftn_NoPtr |-> [Int |-> 0],
     nested |-> [Toplevel |-> FALSE,
                 Nested |-> Ptr("NestedTester", "nested_Nested"),
                 NestedNoPtr |-> Ptr("FlagTesterInner", "nested_NoPtr")],
     nested_Nested |-> [String |-> <<>>, Int |-> 0, Bool |-> FALSE,
                        Deeper |-> Ptr("FlagTesterDeeper", "nested_Deeper")],
     nested_NoPtr |-> [Int |-> 0],
     nested_Deeper |-> [X |-> 0],
     dup |-> [N |-> 0,
              Direct |-> Ptr("DupDirect", "dup_Direct"),
              Nested |-> Ptr("DupNested", "dup_Nested")],
     dup_Direct |-> [X1 |-> 0, X2 |-> 0],
     dup_Nested |-> [N |-> 0,
                     Inner |-> Ptr("FlagTesterDeeper", "dup_Inner"),
                     X |-> 0],
     dup_Inner |-> [X |-> 0],
     def |-> [Sub |-> Ptr("DefSub", "def_Sub")],
     def_Sub |-> <<>>,
     sliced |-> [Slice |-> <<Ptr("IntFlagStruct", "sliced_int"),
                             Ptr("BoolFlagStruct", "sliced_bool")>>],
     sliced_int |-> [Value |-> 0],
     sliced_bool |-> [Value |-> FALSE],
     twice |-> [Slice |-> <<Ptr("IntFlagStruct", "twice_1"),
                            Ptr("IntFlagStruct", "twice_2")>>],
     twice_1 |-> [Value |-> 0],
     twice_2 |-> [Value |-> 0],
     fdt |-> [Duration |-> ZeroDuration,
              Nested |-> Ptr("OtherFlagDurationTester", "fdt_Nested")],
     fdt_Nested |-> [Duration |-> ZeroDuration],
     durt |-> [Duration |-> ZeroDuration,
               Nested |-> Ptr("OtherFlagDurationTester", "durt_Nested")],
     durt_Nested |-> [Duration |-> ZeroDuration],
     bad |-> [Flagged |-> Ptr("BadFlag", "bad_Flagged"),
              Subbed |-> Ptr("BadSub", "bad_Subbed")],
     bad_Flagged |-> [N |-> 0, F |-> 0],
     bad_Subbed |-> [S |-> Ptr("BadFlag", NilObj)],
     loose |-> [Opt |-> Ptr("FlagTesterDeeper", "loose_Opt"),
                Items |-> <<Ptr("IntFlagStruct", "loose_Item")>>],
     loose_Opt |-> [X |-> 0],
     loose_Item |-> [Value |-> 0],
     hooked |-> [N |-> 0, Sub |-> Ptr("HookLeaf", "hooked_Sub")],
     hooked_Sub |-> [X |-> 0],
     commas |-> [V |-> 0],
     equals |-> [W |-> 0],
     subequals |-> [S |-> Ptr("DescCommas", "subequals_S")],
     subequals_S |-> [V |-> 0],
     sizes |-> <<>>,
     widths |-> <<>>,
     kinds |-> [Ratio |-> ZeroFloat, Size |-> 0, Labels |-> NilMap,
                On |-> NilPtr(FALSE)],
     mystruct |-> [B |-> FALSE, S |-> <<>>, I |-> 0, I8 |-> 0, I16 |-> 0,
                   I32 |-> 0, I64 |-> 0, UI |-> 0, UI8 |-> 0, UI16 |-> 0,
                   UI32 |-> 0, UI64 |-> 0, F32 |-> ZeroFloat,
                   F64 |-> ZeroFloat, Slice |-> NilSlice, Map |-> NilMap,
                   Duration |-> ZeroDuration, Ptr |-> NilPtr(FALSE),
                   Unsupported |-> NilMap]]

----------------------------------------------------------------------------
(* utils.ParseString: a token coerced to a value of a given kind.           *)

Digits == {"0", "1", "2", "3", "4", "5", "6", "7", "8", "9"}

DigitVal(c) ==
    CASE c = "0" -> 0 [] c = "1" -> 1 [] c = "2" -> 2 [] c = "3" -> 3
      [] c = "4" -> 4 [] c = "5" -> 5 [] c = "6" -> 6 [] c = "7" -> 7
      [] c = "8" -> 8 [] c = "9" -> 9

RECURSIVE DecimalValue(_)
DecimalValue(ds) ==
    IF ds = <<>> THEN 0
    ELSE 10 * DecimalValue(SubSeq(ds, 1, Len(ds) - 1)) + DigitVal(ds[Len(ds)])

\* The number of zeros a numeral starts with.
LeadingZeros(ds) ==
    IF \A i \in 1..Len(ds) : ds[i] = "0" THEN Len(ds)
    ELSE (CHOOSE i \in 1..Len(ds) :
              ds[i] # "0" /\ \A j \in 1..(i - 1) : ds[j] = "0") - 1

\* A decimal numeral without its leading zeros.
StripLeadingZeros(ds) == SubSeq(ds, LeadingZeros(ds) + 1, Len(ds))

\* The numeral a is greater than the numeral b, both without leading zeros:
\* the longer one, or the one with the greater digit where they first differ.
NumeralGreater(a, b) ==
    \/ Len(a) > Len(b)
    \/ /\ Len(a) = Len(b)
       /\ \E i \in 1..Len(a) :
              /\ DigitVal(a[i]) > DigitVal(b[i])
              /\ \A j \in 1..(i - 1) : a[j] = b[j]

\* 1<<63, as a numeral.
Two63 ==
    <<"9", "2", "2", "3", "3", "7", "2", "0", "3", "6", "8", "5", "4", "7",
      "7", "5", "8", "0", "8">>

\* A number of strconv, a uint64 or an int64: its sign and its decimal
\* numeral, without leading zeros and empty for zero.
Number(neg, ds) == [neg |-> neg /\ ds # <<>>, digits |-> ds]

\* 1<<bitSize - 1, as a numeral.
MaxUint(bitSize) ==
    CASE bitSize = 8  -> <<"2", "5", "5">>
      [] bitSize = 16 -> <<"6", "5", "5", "3", "5">>
      [] bitSize = 32 -> <<"4", "2", "9", "4", "9", "6", "7", "2", "9", "5">>
      [] bitSize = 64 -> <<"1", "8", "4", "4", "6", "7", "4", "4", "0", "7",
                           "3", "7", "0", "9", "5", "5", "1", "6", "1", "5">>

\* cutoff of ParseInt, 1<<(bitSize-1), as a numeral.
Cutoff(bitSize) ==
    CASE bitSize = 8  -> <<"1", "2", "8">>
      [] bitSize = 16 -> <<"3", "2", "7", "6", "8">>
      [] bitSize = 32 -> <<"2", "1", "4", "7", "4", "8", "3", "6", "4", "8">>
      [] bitSize = 64 -> Two63

\* cutoff - 1, as a numeral.
MaxInt(bitSize) ==
    CASE bitSize = 8  -> <<"1", "2", "7">>
      [] bitSize = 16 -> <<"3", "2", "7", "6", "7">>
      [] bitSize = 32 -> <<"2", "1", "4", "7", "4", "8", "3", "6", "4", "7">>
      [] bitSize = 64 -> <<"9", "2", "2", "3", "3", "7", "2", "0", "3", "6",
                           "8", "5", "4", "7", "7", "5", "8", "0", "7">>

\* The length of the longest prefix of s whose characters are all in cs.
LeadingLen(s, cs) ==
    IF \A i \in 1..Len(s) : s[i] \in cs THEN Len(s)
    ELSE (CHOOSE i \in 1..Len(s) :
              s[i] \notin cs /\ \A j \in 1..(i - 1) : s[j] \in cs) - 1

\* strconv.ParseUint(s, 10, bitSize): [err, val].  The empty string is a
\* syntax error.  The loop reads the characters from the left: a character
\* that is no decimal digit is a syntax error, and a digit with which the
\* number passes 1<<bitSize - 1 is a range error, whichever comes first;
\* the value is then the greatest of the size.  There is no sign.
ParseUintSize(s, bitSize) ==
    IF s = <<>>
    THEN [err |-> <<"strconv.ParseUint: invalid syntax">>,
          val |-> Number(FALSE, <<>>)]
    ELSE IF \E i \in 1..LeadingLen(s, Digits) :
                NumeralGreater(StripLeadingZeros(SubSeq(s, 1, i)),
                               MaxUint(bitSize))
    THEN [err |-> <<"strconv.ParseUint: value out of range">>,
          val |-> Number(FALSE, MaxUint(bitSize))]
    ELSE IF LeadingLen(s, Digits) < Len(s)
    THEN [err |-> <<"strconv.ParseUint: invalid syntax">>,
          val |-> Number(FALSE, <<>>)]
    ELSE [err |-> Nil, val |-> Number(FALSE, StripLeadingZeros(s))]

\* ParseInt once the sign is read and un, the rest, is parsed as unsigned
\* of the same size: a syntax error of ParseUint is returned under the name
\* of ParseInt; un, after a range error too, is then tested against cutoff.
ParseIntSigned(neg, un, bitSize) ==
    IF un.err = <<"strconv.ParseUint: invalid syntax">>
    THEN [err |-> <<"strconv.ParseInt: invalid syntax">>,
          val |-> Number(FALSE, <<>>)]
    ELSE IF ~neg /\ ~NumeralGreater(Cutoff(bitSize), un.val.digits)
    THEN [err |-> <<"strconv.ParseInt: value out of range">>,
          val |-> Number(FALSE, MaxInt(bitSize))]
    ELSE IF neg /\ NumeralGreater(un.val.digits, Cutoff(bitSize))
    THEN [err |-> <<"strconv.ParseInt: value out of range">>,
          val |-> Number(TRUE, Cutoff(bitSize))]
    ELSE [err |-> Nil, val |-> Number(neg, un.val.digits)]

\* strconv.ParseInt(s, 10, bitSize): [err, val].  An optional sign, then
\* what ParseUint reads at the same size.
ParseIntSize(s, bitSize) ==
    IF s = <<>>
    THEN [err |-> <<"strconv.ParseInt: invalid syntax">>,
          val |-> Number(FALSE, <<>>)]
    ELSE ParseIntSigned(s[1] = "-",
                        ParseUintSize(IF s[1] \in {"+", "-"} THEN Tail(s)
                                      ELSE s, bitSize),
                        bitSize)

\* strconv.ParseInt(value, 10, 64)
ParseInt(value) == ParseIntSize(value, 64)

\* The number of a numeral, and its opposite: for the numbers of 32 bits.
RECURSIVE NegativeValue(_)
NegativeValue(ds) ==
    IF ds = <<>> THEN 0
    ELSE 10 * NegativeValue(SubSeq(ds, 1, Len(ds) - 1)) - DigitVal(ds[Len(ds)])

\* An integer value, of any integer type: the integer when it is one of 32
\* bits, from -1<<31 to 1<<31 - 1, and the number itself, sign and numeral,
\* when it is beyond.
IntegerOf(n) ==
    IF n.neg
    THEN IF NumeralGreater(n.digits, Cutoff(32)) THEN n
         ELSE NegativeValue(n.digits)
    ELSE IF NumeralGreater(n.digits, MaxInt(32)) THEN n
         ELSE DecimalValue(n.digits)

(***************************************************************************)
(* time.ParseDuration: an optional sign, then "0" or one or more groups of  *)
(* a decimal number, with an optional fraction, and a unit.  A duration is  *)
(* its number of nanoseconds, a sign and a decimal numeral, so that hours   *)
(* are within reach: the arithmetic of ParseDuration is done on numbers of *)
(* any size, the sums modulo 1<<64 and the checks against 1<<63 as the     *)
(* code makes them, and the fraction of a group is computed as the code    *)
(* computes it, in float64.                                                *)
(***************************************************************************)
\* The digit of a number below ten.
DigitOf(n) == CHOOSE c \in Digits : DigitVal(c) = n

(***************************************************************************)
(* The arithmetic on numbers beyond the integers of the model: a number is *)
(* its limbs, the digits it has in base 10000, the lowest first and the    *)
(* highest above zero.                                                      *)
(***************************************************************************)
LimbAt(a, i) == IF i <= Len(a) THEN a[i] ELSE 0

\* The limbs without the zeros at the top.
LimbsTrim(a) ==
    SubSeq(a, 1, CHOOSE n \in 0..Len(a) :
                     /\ n = 0 \/ a[n] # 0
                     /\ \A j \in (n + 1)..Len(a) : a[j] = 0)

\* The limbs of a decimal numeral, four digits to a limb, and the numeral
\* of limbs.
LimbsOf(ds) ==
    LimbsTrim([i \in 1..((Len(ds) + 3) \div 4) |->
                  DecimalValue(SubSeq(ds,
                                      IF Len(ds) < 4 * i THEN 1
                                      ELSE Len(ds) - 4 * i + 1,
                                      Len(ds) - 4 * i + 4))])

NumeralOf(a) ==
    StripLeadingZeros(
        [i \in 1..(4 * Len(a)) |->
            DigitOf((a[Len(a) - ((i - 1) \div 4)]
                     \div (10 ^ (3 - ((i - 1) % 4)))) % 10)])

\* a > b: the longer one, or the one with the greater limb where they
\* first differ from the top.
LimbsGreater(a, b) ==
    \/ Len(a) > Len(b)
    \/ /\ Len(a) = Len(b)
       /\ \E i \in 1..Len(a) :
              a[i] > b[i] /\ \A j \in (i + 1)..Len(a) : a[j] = b[j]

\* a + b: limb i takes a carry when a limb below it gives one and every
\* limb between passes it on.
LimbsCarry(a, b, i) ==
    \E j \in 1..(i - 1) :
        /\ LimbAt(a, j) + LimbAt(b, j) > 9999
        /\ \A k \in (j + 1)..(i - 1) : LimbAt(a, k) + LimbAt(b, k) = 9999

LimbsSum(a, b) ==
    IF b = <<>> THEN a
    ELSE LimbsTrim(
             [i \in 1..((IF Len(a) > Len(b) THEN Len(a) ELSE Len(b)) + 1) |->
                 (LimbAt(a, i) + LimbAt(b, i)
                  + (IF LimbsCarry(a, b, i) THEN 1 ELSE 0)) % 10000])

\* a - b for a >= b: limb i lends when a limb below it borrows and every
\* limb between passes it on.
LimbsBorrow(a, b, i) ==
    \E j \in 1..(i - 1) :
        /\ a[j] < LimbAt(b, j)
        /\ \A k \in (j + 1)..(i - 1) : a[k] = LimbAt(b, k)

LimbsDiff(a, b) ==
    IF b = <<>> THEN a
    ELSE LimbsTrim(
             [i \in 1..Len(a) |->
                 (10000 + a[i] - LimbAt(b, i)
                  - (IF LimbsBorrow(a, b, i) THEN 1 ELSE 0)) % 10000])

\* a * k for a number k of at most 1<<16, limb by limb from the lowest.
RECURSIVE LimbsTimesFrom(_, _, _, _)
LimbsTimesFrom(a, k, i, carry) ==
    IF i > Len(a) /\ carry = 0 THEN <<>>
    ELSE <<(LimbAt(a, i) * k + carry) % 10000>>
         \o LimbsTimesFrom(a, k, i + 1, (LimbAt(a, i) * k + carry) \div 10000)

LimbsTimes(a, k) == LimbsTrim(LimbsTimesFrom(a, k, 1, 0))

\* a * b: a times the limbs of b from limb i up.
RECURSIVE LimbsProductFrom(_, _, _)
LimbsProductFrom(a, b, i) ==
    IF i > Len(b) THEN <<>>
    ELSE LimbsSum(LimbsTimes(a, b[i]), <<0>> \o LimbsProductFrom(a, b, i + 1))

LimbsProduct(a, b) == LimbsProductFrom(a, b, 1)

\* a \div k for a number k of at most 1<<16, limb by limb from the
\* highest, r being the remainder of the limbs above limb i: the limbs of
\* the quotient, the highest first.
RECURSIVE LimbsOverFrom(_, _, _, _)
LimbsOverFrom(a, k, i, r) ==
    IF i = 0 THEN <<>>
    ELSE <<(r * 10000 + a[i]) \div k>>
         \o LimbsOverFrom(a, k, i - 1, (r * 10000 + a[i]) % k)

LimbsReverse(a) == [i \in 1..Len(a) |-> a[Len(a) + 1 - i]]

LimbsOver(a, k) == LimbsTrim(LimbsReverse(LimbsOverFrom(a, k, Len(a), 0)))

LimbsOdd(a) == LimbAt(a, 1) % 2 = 1

\* a << n and a >> n, sixteen bits at a time.
RECURSIVE LimbsShl(_, _)
LimbsShl(a, n) ==
    IF n <= 0 \/ a = <<>> THEN a
    ELSE IF n > 16 THEN LimbsShl(LimbsTimes(a, 65536), n - 16)
    ELSE LimbsTimes(a, 2 ^ n)

RECURSIVE LimbsShr(_, _)
LimbsShr(a, n) ==
    IF n <= 0 \/ a = <<>> THEN a
    ELSE IF n > 16 THEN LimbsShr(LimbsOver(a, 65536), n - 16)
    ELSE LimbsOver(a, 2 ^ n)

\* The number of bits of a number below 10^8, and of limbs.
BitsOf(n) == CHOOSE b \in 0..27 : n < 2 ^ b /\ (b = 0 \/ n >= 2 ^ (b - 1))

RECURSIVE BitLen(_)
BitLen(a) ==
    IF Len(a) > 2 THEN 16 + BitLen(LimbsOver(a, 65536))
    ELSE BitsOf(LimbAt(a, 1) + 10000 * LimbAt(a, 2))

\* The digit d that makes q + d * unit the greatest number of its kind
\* with m times it at most r.
QuotientDigit(r, m, q, unit) ==
    CHOOSE d \in 0..9 :
        /\ ~LimbsGreater(LimbsTimes(m, q + d * unit), r)
        /\ d = 9 \/ LimbsGreater(LimbsTimes(m, q + (d + 1) * unit), r)

QuotientNext(r, m, q, unit) == q + unit * QuotientDigit(r, m, q, unit)

\* r \div m for r below 10000 * m, a decimal digit at a time.
QuotientLimb(r, m) ==
    QuotientNext(r, m,
        QuotientNext(r, m,
            QuotientNext(r, m, QuotientNext(r, m, 0, 1000), 100), 10), 1)

\* The long division of n by m from limb i of n down, q and r being the
\* quotient and the remainder of the limbs above it: [q, r].
RECURSIVE LimbsDivFrom(_, _, _, _, _)

LimbsDivBy(n, m, i, q, r, ql) ==
    LimbsDivFrom(n, m, i - 1, <<ql>> \o q, LimbsDiff(r, LimbsTimes(m, ql)))

LimbsDivFrom(n, m, i, q, r) ==
    IF i = 0 THEN [q |-> LimbsTrim(q), r |-> r]
    ELSE IF LimbsGreater(m, LimbsTrim(<<n[i]>> \o r))
    THEN LimbsDivFrom(n, m, i - 1, <<0>> \o q, LimbsTrim(<<n[i]>> \o r))
    ELSE LimbsDivBy(n, m, i, q, LimbsTrim(<<n[i]>> \o r),
                    QuotientLimb(LimbsTrim(<<n[i]>> \o r), m))

\* n \div m and n % m for m above zero: [q, r].
LimbsDiv(n, m) ==
    IF Len(m) = 1
    THEN [q |-> LimbsOver(n, m[1]),
          r |-> LimbsDiff(n, LimbsTimes(LimbsOver(n, m[1]), m[1]))]
    ELSE LimbsDivFrom(n, m, Len(n), <<>>, <<>>)

\* 1<<64 and 1<<53, as numerals.
Two64 ==
    <<"1", "8", "4", "4", "6", "7", "4", "4", "0", "7", "3", "7", "0", "9",
      "5", "5", "1", "6", "1", "6">>

Two53 ==
    <<"9", "0", "0", "7", "1", "9", "9", "2", "5", "4", "7", "4", "0", "9",
      "9", "2">>

\* A number as a uint64 keeps it: the number modulo 1<<64, for a number
\* below 1<<65.
Uint64(n) ==
    IF LimbsGreater(LimbsOf(Two64), n) THEN n
    ELSE LimbsDiff(n, LimbsOf(Two64))

(***************************************************************************)
(* float64: m * 2^e, m the limbs of a number of at most 53 bits, or +Inf.  *)
(* Every operation rounds to the nearest float64, ties to the even one.    *)
(***************************************************************************)
Float64(m, e) == [inf |-> FALSE, m |-> m, e |-> e]

Float64Inf == [inf |-> TRUE, m |-> <<>>, e |-> 0]

\* h >> 1 rounded to nearest, ties to even: the bit shifted out rounds up
\* when a bit shifted out before it was set, which sticky tells, or when
\* what is kept is odd.
RoundHalf(h, sticky) ==
    IF LimbsOdd(h) /\ (sticky \/ LimbsOdd(LimbsOver(h, 2)))
    THEN LimbsSum(LimbsOver(h, 2), <<1>>)
    ELSE LimbsOver(h, 2)

\* q >> t for t > 0, rounded to nearest, ties to even, h being
\* q >> (t - 1).
RoundFrom(q, t, h) == RoundHalf(h, LimbsShl(h, t - 1) # q)

ShiftRound(q, t) == RoundFrom(q, t, LimbsShr(q, t - 1))

\* The float64 nearest to m * 2^e, m of bits bits and t the number of its
\* bits a float64 does not keep: those beyond 53, and those below 2^-1074.
\* A number of 2^1024 or more is +Inf.
Float64Dropping(m, e, bits, t) ==
    IF m = <<>> THEN Float64(<<>>, 0)
    ELSE IF bits + e > 1024 THEN Float64Inf
    ELSE IF t <= 0 THEN Float64(m, e)
    ELSE IF t > bits + 1 THEN Float64(<<>>, 0)
    ELSE IF bits + e = 1024 /\ ShiftRound(m, t) = LimbsOf(Two53)
    THEN Float64Inf
    ELSE Float64(ShiftRound(m, t), e + t)

Float64Rounding(m, e, bits) ==
    Float64Dropping(m, e, bits,
                    IF bits - 53 > (0 - 1074) - e THEN bits - 53
                    ELSE (0 - 1074) - e)

Float64Round(m, e) == Float64Rounding(m, e, BitLen(m))

\* float64(n) for a uint64.
Float64Of(n) == Float64Round(n, 0)

\* a * b for two float64.
Float64Mul(a, b) ==
    IF a.inf \/ b.inf THEN Float64Inf
    ELSE Float64Round(LimbsProduct(a.m, b.m), a.e + b.e)

\* a / b for two finite float64, from the quotient and the remainder qr of
\* a.m << s by b.m: the quotient has 55 bits or more, and a bit below them
\* tells whether there is a remainder.
Float64Quotient(qr, e) ==
    Float64Round(LimbsSum(LimbsSum(qr.q, qr.q),
                          IF qr.r = <<>> THEN <<>> ELSE <<1>>),
                 e)

Float64Shifted(a, b, s) ==
    Float64Quotient(LimbsDiv(LimbsShl(a.m, s), b.m), a.e - b.e - s - 1)

\* a / b for a finite float64 a and a float64 b above zero.
Float64Div(a, b) ==
    IF b.inf \/ a.m = <<>> THEN Float64(<<>>, 0)
    ELSE Float64Shifted(a, b, 55 + BitLen(b.m) - BitLen(a.m))

\* uint64(x) for a float64 below 1<<64: what is below one is dropped.
Uint64Of(x) ==
    IF x.e >= 0 THEN LimbsShl(x.m, x.e) ELSE LimbsShr(x.m, 0 - x.e)

\* time's unitMap: its keys, and the nanoseconds of a unit, as a numeral.
DurationUnits ==
    {<<"n", "s">>, <<"u", "s">>, <<"µ", "s">>, <<"μ", "s">>, <<"m", "s">>,
     <<"s">>, <<"m">>, <<"h">>}

UnitNanos(u) ==
    CASE u = <<"n", "s">> -> <<"1">>
      [] u = <<"u", "s">> -> <<"1", "0", "0", "0">>
      [] u = <<"µ", "s">> -> <<"1", "0", "0", "0">>
      [] u = <<"μ", "s">> -> <<"1", "0", "0", "0">>
      [] u = <<"m", "s">> -> <<"1", "0", "0", "0", "0", "0", "0">>
      [] u = <<"s">>      -> <<"1", "0", "0", "0", "0", "0", "0", "0", "0", "0">>
      [] u = <<"m">>      -> <<"6", "0", "0", "0", "0", "0", "0", "0", "0", "0",
                               "0">>
      [] u = <<"h">>      -> <<"3", "6", "0", "0", "0", "0", "0", "0", "0", "0",
                               "0", "0", "0">>

\* The length of the unit at the head of s: up to the next '.' or digit.
UnitLen(s) == LeadingLen(s, {s[i] : i \in 1..Len(s)} \ (Digits \cup {"."}))

\* An iteration of leadingInt or leadingFraction overflows: x, the number
\* of the digits before, is above 1<<63/10, or with the digit c it is
\* above 1<<63.
DigitOverflows(x, c) ==
    \/ NumeralGreater(x, SubSeq(Two63, 1, Len(Two63) - 1))
    \/ NumeralGreater(StripLeadingZeros(Append(x, c)), Two63)

\* The iterations of leadingInt or leadingFraction over the digits ds that
\* overflow, were x the number of the digits before.
Overflowing(ds) ==
    {i \in 1..Len(ds) :
        DigitOverflows(StripLeadingZeros(SubSeq(ds, 1, i - 1)), ds[i])}

\* time's leadingInt over the digits ds: [err, x], x a numeral.  A number
\* above 1<<63 is an error.
leadingInt(ds) ==
    IF Overflowing(ds) # {} THEN [err |-> TRUE, x |-> <<>>]
    ELSE [err |-> FALSE, x |-> StripLeadingZeros(ds)]

\* The float64 scale of leadingFraction after n more digits taken:
\* scale *= 10 for each.
RECURSIVE FractionScale(_, _)
FractionScale(n, scale) ==
    IF n = 0 \/ scale.inf THEN scale
    ELSE FractionScale(n - 1, Float64Mul(scale, Float64(<<10>>, 0)))

\* The digits leadingFraction takes: those before the first iteration that
\* overflows, the digits left being skipped.
FractionTaken(ds, over) ==
    IF over = {} THEN Len(ds)
    ELSE (CHOOSE i \in over : \A j \in over : i <= j) - 1

\* time's leadingFraction over the digits ds: [x, scale], x a numeral and
\* scale a float64.
leadingFraction(ds) ==
    [x     |-> StripLeadingZeros(
                   SubSeq(ds, 1, FractionTaken(ds, Overflowing(ds)))),
     scale |-> FractionScale(FractionTaken(ds, Overflowing(ds)),
                             Float64(<<1>>, 0))]

InvalidDuration ==
    [err |-> <<"time: invalid duration">>, val |-> <<>>, rest |-> <<>>]

\* The end of the loop's body, v being the nanoseconds of the group and
\* total what d += v gives in 64 bits: the check of v against 1<<63 that
\* follows the fraction, then the check of d against 1<<63.
DurationSum(rest, v, total) ==
    IF LimbsGreater(v, LimbsOf(Two63)) \/ LimbsGreater(total, LimbsOf(Two63))
    THEN InvalidDuration
    ELSE [err |-> Nil, val |-> total, rest |-> rest]

\* The nanoseconds of the group of a number and a fraction, vu being the
\* number times the unit: v += uint64(float64(f) * (float64(unit) / scale))
\* for a fraction above zero.
DurationNanos(vu, f, scale, unit) ==
    IF f = <<>> THEN vu
    ELSE LimbsSum(vu, Uint64Of(Float64Mul(Float64Of(f),
                                          Float64Div(Float64Of(unit), scale))))

\* d += v for the nanoseconds so far and those of the group.
DurationAdd(rest, d, v) == DurationSum(rest, v, Uint64(LimbsSum(d, v)))

\* The group once its unit is known, d being the nanoseconds so far, vu
\* the number times the unit and f the fraction: the check of v against
\* 1<<63/unit, v *= unit, the fraction and the sum.
DurationValue(rest, d, vu, f, scale, unit) ==
    IF LimbsGreater(vu, LimbsOf(Two63)) THEN InvalidDuration
    ELSE DurationAdd(rest, d, DurationNanos(vu, f, scale, unit))

\* The group once its number v and its fraction fr are read, pre and post
\* being the numbers of their digits and s3 the text after them.
DurationUnit(s3, d, v, fr, pre, post, ulen) ==
    IF v.err THEN InvalidDuration
    ELSE IF pre = 0 /\ post = 0 THEN InvalidDuration
    ELSE IF ulen = 0
    THEN [err |-> <<"time: missing unit in duration">>, val |-> <<>>,
          rest |-> <<>>]
    ELSE IF SubSeq(s3, 1, ulen) \notin DurationUnits
    THEN [err |-> <<"time: unknown unit in duration">>, val |-> <<>>,
          rest |-> <<>>]
    ELSE DurationValue(SubSeq(s3, ulen + 1, Len(s3)), d,
                       LimbsProduct(LimbsOf(v.x),
                                    LimbsOf(UnitNanos(SubSeq(s3, 1, ulen)))),
                       LimbsOf(fr.x), fr.scale,
                       LimbsOf(UnitNanos(SubSeq(s3, 1, ulen))))

\* The body of the loop of time.ParseDuration for the group at the head of
\* s, d being the nanoseconds so far, as limbs: [err, val, rest], the
\* nanoseconds with the group and the text after it.
DurationGroup(s, d) ==
    IF s[1] \notin Digits \cup {"."} THEN InvalidDuration
    ELSE
    LET pre     == LeadingLen(s, Digits)
        s1      == SubSeq(s, pre + 1, Len(s))
        dotted  == s1 # <<>> /\ s1[1] = "."
        s2      == IF dotted THEN Tail(s1) ELSE s1
        post    == IF dotted THEN LeadingLen(s2, Digits) ELSE 0
        s3      == SubSeq(s2, post + 1, Len(s2))
    IN  DurationUnit(s3, d, leadingInt(SubSeq(s, 1, pre)),
                     leadingFraction(SubSeq(s2, 1, post)),
                     pre, post, UnitLen(s3))

\* The loop of time.ParseDuration over the groups left in s: [err, val].
RECURSIVE DurationGroups(_, _)

DurationNext(g) ==
    IF g.err # Nil THEN [err |-> g.err, val |-> <<>>]
    ELSE DurationGroups(g.rest, g.val)

DurationGroups(s, d) ==
    IF s = <<>> THEN [err |-> Nil, val |-> d]
    ELSE DurationNext(DurationGroup(s, d))

\* The end of time.ParseDuration, g being what the loop returned: the sign,
\* and the check of a positive duration against 1<<63 - 1.
DurationSigned(neg, g) ==
    IF g.err # Nil THEN [err |-> g.err, val |-> ZeroDuration]
    ELSE IF ~neg /\ g.val = LimbsOf(Two63)
    THEN [err |-> <<"time: invalid duration">>, val |-> ZeroDuration]
    ELSE [err |-> Nil, val |-> Duration(neg, NumeralOf(g.val))]

\* time.ParseDuration(value): [err, val]
ParseDuration(value) ==
    LET signed == value # <<>> /\ value[1] \in {"+", "-"}
        s      == IF signed THEN Tail(value) ELSE value
    IN  IF s = <<"0">> THEN [err |-> Nil, val |-> ZeroDuration]
        ELSE IF s = <<>>
        THEN [err |-> <<"time: invalid duration">>, val |-> ZeroDuration]
        ELSE DurationSigned(signed /\ value[1] = "-", DurationGroups(s, <<>>))

\* strconv.ParseBool: the literals it accepts.
BoolTrue ==
    {<<"1">>, <<"t">>, <<"T">>, <<"t", "r", "u", "e">>,
     <<"T", "R", "U", "E">>, <<"T", "r", "u", "e">>}

BoolFalse ==
    {<<"0">>, <<"f">>, <<"F">>, <<"f", "a", "l", "s", "e">>,
     <<"F", "A", "L", "S", "E">>, <<"F", "a", "l", "s", "e">>}

ParseBool(value) ==
    IF value \in BoolTrue THEN [err |-> Nil, val |-> TRUE]
    ELSE IF value \in BoolFalse THEN [err |-> Nil, val |-> FALSE]
    ELSE [err |-> <<"strconv.ParseBool: invalid syntax">>, val |-> FALSE]

(***************************************************************************)
(* strconv.ParseFloat and fmt's %v of a float.  A float is held as the      *)
(* decimal that writes it shortest: its sign, its significant digits       *)
(* without leading or trailing zeros and the place dp of the decimal point *)
(* (the value is 0.d1d2... * 10^dp), or it is one of NaN, +Inf and -Inf.    *)
(* A float64 keeps a decimal of at most 15 significant digits in the       *)
(* normal range, a float32 a decimal it represents exactly when widened;   *)
(* a decimal that is rounded to another value, a subnormal and a           *)
(* hexadecimal float have no value here: the operators are not defined on  *)
(* them.                                                                   *)
(***************************************************************************)
\* strconv's special: inf, infinity and nan in any case, the infinities
\* with an optional sign; "" for any other text.
specialOf(s, negative, signed) ==
    IF s \in {<<"i", "n", "f">>, <<"i", "n", "f", "i", "n", "i", "t", "y">>}
    THEN IF negative THEN "-Inf" ELSE "+Inf"
    ELSE IF ~signed /\ s = <<"n", "a", "n">> THEN "NaN"
    ELSE ""

special(value) ==
    IF value # <<>> /\ value[1] \in {"+", "-"}
    THEN specialOf(ToLower(Tail(value)), value[1] = "-", TRUE)
    ELSE specialOf(ToLower(value), FALSE, FALSE)

\* The length of the mantissa at the head of s: digits and underscores
\* around at most one point.
RECURSIVE MantissaLen(_, _)
MantissaLen(s, sawdot) ==
    IF s = <<>> THEN 0
    ELSE IF s[1] \in Digits \cup {"_"} THEN 1 + MantissaLen(Tail(s), sawdot)
    ELSE IF s[1] = "." /\ ~sawdot THEN 1 + MantissaLen(Tail(s), TRUE)
    ELSE 0

\* The loop of strconv's underscoreOK over the number proper, saw being the
\* last character seen: "^" none, "0" a digit, "_" an underscore, "!"
\* another character.
RECURSIVE underscoreOKFrom(_, _)
underscoreOKFrom(s, saw) ==
    IF s = <<>> THEN saw # "_"
    ELSE IF s[1] \in Digits THEN underscoreOKFrom(Tail(s), "0")
    ELSE IF s[1] = "_" THEN saw = "0" /\ underscoreOKFrom(Tail(s), "_")
    ELSE saw # "_" /\ underscoreOKFrom(Tail(s), "!")

\* strconv's underscoreOK for a decimal number: every underscore separates
\* two digits.
underscoreOK(s) ==
    underscoreOKFrom(IF s # <<>> /\ s[1] \in {"+", "-"} THEN Tail(s) ELSE s,
                     "^")

RECURSIVE StripTrailingZeros(_)
StripTrailingZeros(ds) ==
    IF ds # <<>> /\ ds[Len(ds)] = "0"
    THEN StripTrailingZeros(SubSeq(ds, 1, Len(ds) - 1))
    ELSE ds

\* The mantissa read by readFloat, mant being its text without
\* underscores: [len, ipart, fpart], the digits before and after the point.
MantissaText(mlen, mant) ==
    [len   |-> mlen,
     ipart |-> IF IndexOf(mant, ".") = 0 THEN mant
               ELSE SubSeq(mant, 1, IndexOf(mant, ".") - 1),
     fpart |-> IF IndexOf(mant, ".") = 0 THEN <<>>
               ELSE SubSeq(mant, IndexOf(mant, ".") + 1, Len(mant))]

MantissaOf(body, mlen) ==
    MantissaText(mlen, RemoveChar(SubSeq(body, 1, mlen), "_"))

\* The loop of readFloat over the digits of an exponent, e being the number
\* so far: a digit is taken while e < 10000.
RECURSIVE ExponentValue(_, _)
ExponentValue(e, edigits) ==
    IF edigits = <<>> THEN e
    ELSE ExponentValue(IF e < 10000 THEN e * 10 + DigitVal(edigits[1]) ELSE e,
                       Tail(edigits))

\* The exponent whose digits and underscores are ds, with its sign.
ExponentSigned(neg, ds) ==
    IF neg THEN 0 - ExponentValue(0, RemoveChar(ds, "_"))
    ELSE ExponentValue(0, RemoveChar(ds, "_"))

\* The exponent read by readFloat, its digits being at the head of e2 after
\* lead characters (the e and a sign): [len, ok, e].
ExponentDigits(e2, lead, neg) ==
    [len |-> lead + LeadingLen(e2, Digits \cup {"_"}),
     ok  |-> e2 # <<>> /\ e2[1] \in Digits,
     e   |-> ExponentSigned(neg,
                 SubSeq(e2, 1, LeadingLen(e2, Digits \cup {"_"})))]

ExponentOf(rest) ==
    IF rest = <<>> \/ rest[1] \notin {"e", "E"}
    THEN [len |-> 0, ok |-> TRUE, e |-> 0]
    ELSE IF Len(rest) >= 2 /\ rest[2] \in {"+", "-"}
    THEN ExponentDigits(SubSeq(rest, 3, Len(rest)), 2, rest[2] = "-")
    ELSE ExponentDigits(Tail(rest), 1, FALSE)

\* The end of readFloat, all being the digits of the mantissa, ilen the
\* number of them before the point, x the exponent and n the number of
\* characters read.
readFloatEnd(s, all, ilen, x, n) ==
    [ok     |-> /\ all # <<>>
                /\ x.ok
                /\ (\E i \in 1..n : s[i] = "_")
                      => underscoreOK(SubSeq(s, 1, n)),
     neg    |-> s # <<>> /\ s[1] = "-",
     digits |-> StripTrailingZeros(StripLeadingZeros(all)),
     dp     |-> IF \A i \in 1..Len(all) : all[i] = "0" THEN 0
                ELSE ilen - LeadingZeros(all) + x.e,
     n      |-> n]

readFloatMantissa(s, body, m) ==
    readFloatEnd(s, m.ipart \o m.fpart, Len(m.ipart),
                 ExponentOf(SubSeq(body, m.len + 1, Len(body))),
                 (Len(s) - Len(body)) + m.len
                 + ExponentOf(SubSeq(body, m.len + 1, Len(body))).len)

readFloatBody(s, body) ==
    readFloatMantissa(s, body, MantissaOf(body, MantissaLen(body, FALSE)))

\* strconv's readFloat on a decimal number: [ok, neg, digits, dp, n], n
\* being the number of characters read.
readFloat(s) ==
    readFloatBody(s, IF s # <<>> /\ s[1] \in {"+", "-"} THEN Tail(s) ELSE s)

\* 0.a > 0.b for two sequences of digits.
RECURSIVE FractionGreater(_, _)
FractionGreater(a, b) ==
    IF a = <<>> THEN FALSE
    ELSE IF b = <<>> THEN \E i \in 1..Len(a) : a[i] # "0"
    ELSE IF a[1] # b[1] THEN DigitVal(a[1]) > DigitVal(b[1])
    ELSE FractionGreater(Tail(a), Tail(b))

\* The digits of the decimal halfway between the largest float of the size
\* and the next power of two, which is at 0.d1d2... * 10^MaxFloatPoint.
HalfwayToInf(bitSize) ==
    IF bitSize = 64
    THEN <<"1", "7", "9", "7", "6", "9", "3", "1", "3", "4", "8", "6", "2",
           "3", "1", "5", "8">>
    ELSE <<"3", "4", "0", "2", "8", "2", "3", "5", "6", "7", "7", "9", "7",
           "3", "3", "6", "6">>

MaxFloatPoint(bitSize) == IF bitSize = 64 THEN 309 ELSE 39

\* The decimal is beyond the largest float of the size.
FloatOverflows(digits, dp, bitSize) ==
    \/ dp > MaxFloatPoint(bitSize)
    \/ /\ dp = MaxFloatPoint(bitSize)
       /\ Len(digits) <= 15
       /\ FractionGreater(digits, HalfwayToInf(bitSize))

\* The decimal is below half the smallest float of the size and rounds to
\* zero.
FloatVanishes(dp, bitSize) == dp <= (IF bitSize = 64 THEN -324 ELSE -46)

RECURSIVE OddPart(_)
OddPart(n) == IF n % 2 = 0 THEN OddPart(n \div 2) ELSE n

\* m * 10^(-k) is a float32: an integer or a fraction of a power of two
\* whose odd part has 24 bits at most.
ExactFloat32Of(m, k) ==
    IF k <= 0
    THEN 0 - k <= 10 /\ OddPart(m) <= 16777215 \div (5 ^ (0 - k))
    ELSE /\ k <= 12
         /\ m % (5 ^ k) = 0
         /\ OddPart(m \div (5 ^ k)) <= 16777215

ExactFloat32(digits, dp) ==
    Len(digits) <= 9 /\ ExactFloat32Of(DecimalValue(digits), Len(digits) - dp)

\* The float of the size nearest to the decimal is written as the decimal.
FloatKeeps(digits, dp, bitSize) ==
    IF bitSize = 64 THEN Len(digits) <= 15 /\ dp >= -306
    ELSE ExactFloat32(digits, dp)

\* The end of strconv's atof: the decimal read, rounded to the size.
FloatRounded(neg, digits, dp, bitSize) ==
    CASE digits = <<>> -> [err |-> Nil, val |-> Float(neg, <<>>, 0)]
      [] digits # <<>> /\ FloatOverflows(digits, dp, bitSize) ->
            [err |-> <<"strconv.ParseFloat: value out of range">>,
             val |-> SpecialFloat(IF neg THEN "-Inf" ELSE "+Inf")]
      [] digits # <<>> /\ FloatVanishes(dp, bitSize) ->
            [err |-> Nil, val |-> Float(neg, <<>>, 0)]
      [] /\ digits # <<>>
         /\ ~FloatOverflows(digits, dp, bitSize)
         /\ FloatKeeps(digits, dp, bitSize) ->
            [err |-> Nil, val |-> Float(neg, digits, dp)]

\* The text starts as a hexadecimal float does.
HexPrefixed(value) ==
    \/ Len(value) >= 2 /\ value[1] = "0" /\ value[2] \in {"x", "X"}
    \/ /\ Len(value) >= 3
       /\ value[1] \in {"+", "-"}
       /\ value[2] = "0"
       /\ value[3] \in {"x", "X"}

\* ParseFloat once the text is looked up among the special values (sp) and
\* read as a number (r).
ParseFloatRead(value, bitSize, sp, r) ==
    CASE sp # "" -> [err |-> Nil, val |-> SpecialFloat(sp)]
      [] sp = "" /\ ~HexPrefixed(value) /\ (~r.ok \/ r.n # Len(value)) ->
            [err |-> <<"strconv.ParseFloat: invalid syntax">>,
             val |-> ZeroFloat]
      [] sp = "" /\ ~HexPrefixed(value) /\ r.ok /\ r.n = Len(value) ->
            FloatRounded(r.neg, r.digits, r.dp, bitSize)

\* strconv.ParseFloat(value, bitSize): [err, val]
ParseFloat(value, bitSize) ==
    ParseFloatRead(value, bitSize, special(value), readFloat(value))

(***************************************************************************)
(* encoding/json on a []string and on a map[string]string.  Marshal writes *)
(* ["s1","s2",...] and {"k1":"v1",...}, the keys sorted, with the          *)
(* characters " and \ escaped by a backslash, the HTML characters <, > and *)
(* & written as their \u00XX escapes and null for a nil slice or map;      *)
(* Unmarshal reads JSON text, white space between the tokens and escapes   *)
(* in the strings included.  Text is printable ASCII and the control       *)
(* characters TLA+ can write; an escape for any other character has no     *)
(* value here.                                                             *)
(***************************************************************************)
\* The printable characters of ASCII but the grave accent, which a string
\* of TLA+ cannot hold: from the space (32) to the underscore (95) and from
\* a (97) to the tilde (126).
AsciiLow ==
    <<" ", "!", "\"", "#", "$", "%", "&", "'", "(", ")", "*", "+", ",", "-",
      ".", "/", "0", "1", "2", "3", "4", "5", "6", "7", "8", "9", ":", ";",
      "<", "=", ">", "?", "@", "A", "B", "C", "D", "E", "F", "G", "H", "I",
      "J", "K", "L", "M", "N", "O", "P", "Q", "R", "S", "T", "U", "V", "W",
      "X", "Y", "Z", "[", "\\", "]", "^", "_">>

AsciiHigh ==
    <<"a", "b", "c", "d", "e", "f", "g", "h", "i", "j", "k", "l", "m", "n",
      "o", "p", "q", "r", "s", "t", "u", "v", "w", "x", "y", "z", "{", "|",
      "}", "~">>

CharCode(c) ==
    CASE c = "\t" -> 9 [] c = "\n" -> 10 [] c = "\f" -> 12 [] c = "\r" -> 13
      [] \E i \in 1..Len(AsciiLow) : AsciiLow[i] = c ->
            31 + (CHOOSE i \in 1..Len(AsciiLow) : AsciiLow[i] = c)
      [] \E i \in 1..Len(AsciiHigh) : AsciiHigh[i] = c ->
            96 + (CHOOSE i \in 1..Len(AsciiHigh) : AsciiHigh[i] = c)

CharOf(code) ==
    CASE code = 9 -> "\t" [] code = 10 -> "\n" [] code = 12 -> "\f"
      [] code = 13 -> "\r"
      [] code \in 32..95 -> AsciiLow[code - 31]
      [] code \in 97..126 -> AsciiHigh[code - 96]

HexDigits == Digits \cup {"a", "b", "c", "d", "e", "f",
                          "A", "B", "C", "D", "E", "F"}

HexVal(c) ==
    IF c \in Digits THEN DigitVal(c)
    ELSE CASE ToLowerChar(c) = "a" -> 10 [] ToLowerChar(c) = "b" -> 11
           [] ToLowerChar(c) = "c" -> 12 [] ToLowerChar(c) = "d" -> 13
           [] ToLowerChar(c) = "e" -> 14 [] ToLowerChar(c) = "f" -> 15

\* encoding/json, the text of a character inside a string.  The form feed is
\* written \f by the encoding/json of Go 1.22 and later (short) and \u000c
\* by the earlier one.  (The backspace, which differs in the same way, is
\* not a character of the tokens here.)
JSONEscapeChar(short, c) ==
    CASE c = "\"" -> <<"\\", "\"">>
      [] c = "\\" -> <<"\\", "\\">>
      [] c = "\n" -> <<"\\", "n">>
      [] c = "\r" -> <<"\\", "r">>
      [] c = "\t" -> <<"\\", "t">>
      [] c = "\f" -> IF short THEN <<"\\", "f">>
                    ELSE <<"\\", "u", "0", "0", "0", "c">>
      [] c = "<"  -> <<"\\", "u", "0", "0", "3", "c">>
      [] c = ">"  -> <<"\\", "u", "0", "0", "3", "e">>
      [] c = "&"  -> <<"\\", "u", "0", "0", "2", "6">>
      [] OTHER    -> <<c>>

RECURSIVE JSONEscape(_, _)
JSONEscape(short, s) ==
    IF s = <<>> THEN <<>>
    ELSE JSONEscapeChar(short, Head(s)) \o JSONEscape(short, Tail(s))

JSONQuote(short, s) == <<"\"">> \o JSONEscape(short, s) \o <<"\"">>

\* The texts of strs, a comma between them.
RECURSIVE JSONJoin(_)
JSONJoin(strs) ==
    IF strs = <<>> THEN <<>>
    ELSE IF Len(strs) = 1 THEN strs[1]
    ELSE strs[1] \o <<",">> \o JSONJoin(Tail(strs))

\* json.Marshal(extras) for extras []string that is not nil
JSONMarshal(short, strs) ==
    <<"[">> \o JSONJoin([i \in 1..Len(strs) |-> JSONQuote(short, strs[i])]) \o <<"]">>

\* The character a one-letter escape stands for.
JSONUnescape(c) ==
    CASE c \in {"\"", "\\", "/"} -> c
      [] c = "n" -> "\n"
      [] c = "r" -> "\r"
      [] c = "t" -> "\t"
      [] c = "f" -> "\f"

\* The text after an opening quote, read up to the closing quote:
\* [ok, str, rest], rest being what follows the closing quote.
RECURSIVE JSONScanString(_, _)
JSONScanString(s, acc) ==
    IF s = <<>> THEN [ok |-> FALSE, str |-> acc, rest |-> <<>>]
    ELSE IF s[1] = "\"" THEN [ok |-> TRUE, str |-> acc, rest |-> Tail(s)]
    ELSE IF s[1] \in {"\t", "\n", "\f", "\r"}
    THEN [ok |-> FALSE, str |-> acc, rest |-> <<>>]
    ELSE IF s[1] = "\\" THEN
        IF Len(s) >= 2 /\ s[2] \in {"\"", "\\", "/", "b", "f", "n", "r", "t"}
        THEN JSONScanString(SubSeq(s, 3, Len(s)),
                            Append(acc, JSONUnescape(s[2])))
        ELSE IF /\ Len(s) >= 6
                /\ s[2] = "u"
                /\ \A i \in 3..6 : s[i] \in HexDigits
        THEN JSONScanString(SubSeq(s, 7, Len(s)),
                 Append(acc, CharOf(4096 * HexVal(s[3]) + 256 * HexVal(s[4])
                                    + 16 * HexVal(s[5]) + HexVal(s[6]))))
        ELSE [ok |-> FALSE, str |-> acc, rest |-> <<>>]
    ELSE JSONScanString(Tail(s), Append(acc, s[1]))

JSONSpace == {" ", "\t", "\n", "\r"}

\* s without the white space it starts with.
JSONSkip(s) == SubSeq(s, LeadingLen(s, JSONSpace) + 1, Len(s))

JSONNull == <<"n", "u", "l", "l">>

\* s is null and white space after it.
JSONNullAt(s) ==
    /\ Len(s) >= 4
    /\ SubSeq(s, 1, 4) = JSONNull
    /\ JSONSkip(SubSeq(s, 5, Len(s))) = <<>>

\* A value read into a string, at the head of s: a string, or null, which
\* leaves the string empty: [ok, str, rest].  Any other value is refused.
JSONScanValue(s) ==
    IF s # <<>> /\ s[1] = "\"" THEN JSONScanString(Tail(s), <<>>)
    ELSE IF Len(s) >= 4 /\ SubSeq(s, 1, 4) = JSONNull
    THEN [ok |-> TRUE, str |-> <<>>, rest |-> SubSeq(s, 5, Len(s))]
    ELSE [ok |-> FALSE, str |-> <<>>, rest |-> <<>>]

\* What follows the value e of an array or an object closed by the
\* character close: [ok, more, rest].  Nothing but white space follows the
\* closing character.
JSONAfterValue(e, close) ==
    IF ~e.ok \/ JSONSkip(e.rest) = <<>>
    THEN [ok |-> FALSE, more |-> FALSE, rest |-> <<>>]
    ELSE IF JSONSkip(e.rest)[1] = close
    THEN [ok |-> JSONSkip(Tail(JSONSkip(e.rest))) = <<>>, more |-> FALSE,
          rest |-> <<>>]
    ELSE [ok |-> JSONSkip(e.rest)[1] = ",", more |-> TRUE,
          rest |-> Tail(JSONSkip(e.rest))]

RECURSIVE JSONScanElems(_, _)

\* The loop over the elements of an array, once the element e is read and
\* what follows it (a) is looked at.
JSONElemRead(acc, e, a) ==
    IF ~a.ok THEN [ok |-> FALSE, val |-> acc]
    ELSE IF a.more THEN JSONScanElems(a.rest, Append(acc, e.str))
    ELSE [ok |-> TRUE, val |-> Append(acc, e.str)]

JSONElem(acc, e) == JSONElemRead(acc, e, JSONAfterValue(e, "]"))

\* The elements of an array from s on, up to the end of the text:
\* [ok, val].
JSONScanElems(s, acc) == JSONElem(acc, JSONScanValue(JSONSkip(s)))

RECURSIVE JSONScanMembers(_, _)

\* The loop over the members of an object, once the key k and the value e
\* are read and what follows them (a) is looked at.  A key met again takes
\* its last value.
JSONMemberRead(acc, k, e, a) ==
    IF ~a.ok THEN [ok |-> FALSE, val |-> acc]
    ELSE IF a.more THEN JSONScanMembers(a.rest, (k :> e.str) @@ acc)
    ELSE [ok |-> TRUE, val |-> (k :> e.str) @@ acc]

JSONMemberValue(acc, k, e) ==
    JSONMemberRead(acc, k, e, JSONAfterValue(e, "}"))

\* The member once its key k is read: a colon, then the value.
JSONMemberKey(acc, k) ==
    IF ~k.ok \/ JSONSkip(k.rest) = <<>> \/ JSONSkip(k.rest)[1] # ":"
    THEN [ok |-> FALSE, val |-> acc]
    ELSE JSONMemberValue(acc, k.str,
                         JSONScanValue(JSONSkip(Tail(JSONSkip(k.rest)))))

\* The member at the head of s: its key is a string.
JSONMember(s, acc) ==
    IF s = <<>> \/ s[1] # "\"" THEN [ok |-> FALSE, val |-> acc]
    ELSE JSONMemberKey(acc, JSONScanString(Tail(s), <<>>))

\* The members of an object from s on, up to the end of the text:
\* [ok, val].
JSONScanMembers(s, acc) == JSONMember(JSONSkip(s), acc)

\* The text s, which starts at the character open, is empty but for white
\* space and the character close.
JSONEmptyAt(s, close) ==
    /\ s # <<>>
    /\ s[1] = close
    /\ JSONSkip(Tail(s)) = <<>>

JSONSliceOf(r) ==
    IF r.ok THEN [err |-> Nil, val |-> Slice(r.val)]
    ELSE [err |-> <<"json: cannot unmarshal">>, val |-> NilSlice]

\* json.Unmarshal into a []string once the white space before the value is
\* skipped.
JSONUnmarshalSlice(s) ==
    IF JSONNullAt(s) THEN [err |-> Nil, val |-> NilSlice]
    ELSE IF s = <<>> \/ s[1] # "["
    THEN [err |-> <<"json: cannot unmarshal">>, val |-> NilSlice]
    ELSE IF JSONEmptyAt(JSONSkip(Tail(s)), "]")
    THEN [err |-> Nil, val |-> Slice(<<>>)]
    ELSE JSONSliceOf(JSONScanElems(Tail(s), <<>>))

\* json.Unmarshal([]byte(value), &s) for s []string
JSONUnmarshal(value) == JSONUnmarshalSlice(JSONSkip(value))

JSONMapOf(r) ==
    IF r.ok THEN [err |-> Nil, val |-> Map(r.val)]
    ELSE [err |-> <<"json: cannot unmarshal">>, val |-> NilMap]

\* json.Unmarshal into a map[string]string once the white space before the
\* value is skipped.
JSONUnmarshalObject(s) ==
    IF JSONNullAt(s) THEN [err |-> Nil, val |-> NilMap]
    ELSE IF s = <<>> \/ s[1] # "{"
    THEN [err |-> <<"json: cannot unmarshal">>, val |-> NilMap]
    ELSE IF JSONEmptyAt(JSONSkip(Tail(s)), "}")
    THEN [err |-> Nil, val |-> Map(<<>>)]
    ELSE JSONMapOf(JSONScanMembers(Tail(s), <<>>))

\* json.Unmarshal([]byte(value), &m) for m map[string]string
JSONUnmarshalMap(value) == JSONUnmarshalObject(JSONSkip(value))

\* The case for reflect.Int64 trying the duration first, then the integer.
ParseDurationOrInt64(i, dur) ==
    IF dur.err = Nil
    THEN [err |-> Nil, panic |-> FALSE, val |-> dur.val, type |-> "duration"]
    ELSE IF i.err # Nil
    THEN [err |-> Wrap(dur.err, "Failed to parse string to int64 or time.Duration"),
          panic |-> FALSE, val |-> 0, type |-> "int64"]
    ELSE [err |-> Nil, panic |-> FALSE, val |-> IntegerOf(i.val),
          type |-> "int64"]

\* The case of ParseString for reflect.Int64, once the integer is parsed:
\* the integer if the token is one, a time.Duration if it is a duration.
ParseInt64OrDuration(i, dur) ==
    IF i.err = Nil
    THEN [err |-> Nil, panic |-> FALSE, val |-> IntegerOf(i.val),
          type |-> "int64"]
    ELSE IF dur.err # Nil
    THEN [err |-> Wrap(dur.err, "Failed to parse string to int64 or time.Duration"),
          panic |-> FALSE, val |-> 0, type |-> "int64"]
    ELSE [err |-> Nil, panic |-> FALSE, val |-> dur.val, type |-> "duration"]

\* The types of the fixtures of kind reflect.Ptr, reflect.Slice and
\* reflect.Map.  "ptr" is a pointer to a struct, "slice" a []string and
\* "map" a map[string]string.
PtrKinds ==
    {"ptr", "*bool", "*string", "*int", "*int64", "*duration", "*uint",
     "*float64", "*slice"}

SliceKinds == {"slice", "[]int"}

MapKinds == {"map", "map[string]int", "map[int]string"}

\* t.Elem() for a type of kind reflect.Ptr
Elem(kind) ==
    CASE kind = "ptr"       -> "struct"
      [] kind = "*bool"     -> "bool"
      [] kind = "*string"   -> "string"
      [] kind = "*int"      -> "int"
      [] kind = "*int64"    -> "int64"
      [] kind = "*duration" -> "duration"
      [] kind = "*uint"     -> "uint"
      [] kind = "*float64"  -> "float64"
      [] kind = "*slice"    -> "slice"

\* What ParseString returns for a value parsed by strconv or json:
\* [err, panic, val, type].
Parsed1(r, msg, type) ==
    [err |-> Wrap(r.err, msg), panic |-> FALSE, val |-> r.val, type |-> type]

\* 1<<32, as a numeral.
Two32 == <<"4", "2", "9", "4", "9", "6", "7", "2", "9", "6">>

\* The low 32 bits of a number below 1<<64, in limbs.
Low32(a) == LimbsDiff(a, LimbsShl(LimbsShr(a, 32), 32))

\* The low 32 bits of an int64 in two's complement, in limbs.
Low32Signed(n) ==
    IF n.neg /\ Low32(LimbsOf(n.digits)) # <<>>
    THEN LimbsDiff(LimbsOf(Two32), Low32(LimbsOf(n.digits)))
    ELSE Low32(LimbsOf(n.digits))

\* The int32 of 32 bits w: w - 1<<32 from 1<<31 on.
Int32Of(w) ==
    IF LimbsGreater(LimbsOf(Cutoff(32)), w) THEN Number(FALSE, NumeralOf(w))
    ELSE Number(TRUE, NumeralOf(LimbsDiff(LimbsOf(Two32), w)))

\* int(i) for an int64 i, where int has that many bits: the conversion
\* keeps the low bits of i.
IntOf(bits, i) ==
    IF bits = 64 THEN IntegerOf(i) ELSE IntegerOf(Int32Of(Low32Signed(i)))

\* uint(i) for a uint64 i, where uint has that many bits.
UintOf(bits, i) ==
    IF bits = 64 THEN IntegerOf(i)
    ELSE IntegerOf(Number(FALSE, NumeralOf(Low32(LimbsOf(i.digits)))))

\* What ParseString returns for an integer parsed by strconv and converted
\* to its type: the value, or with an error reflect.ValueOf(nil).
ParsedInteger(r, val, msg, type) ==
    [err |-> Wrap(r.err, msg), panic |-> FALSE,
     val |-> IF r.err = Nil THEN val ELSE 0, type |-> type]

\* The same for a type of the size the integer was parsed at: int8(i),
\* uint32(i) and the like keep the number.
ParsedSized(r, msg, type) == ParsedInteger(r, IntegerOf(r.val), msg, type)

\* The case of ParseString for reflect.Ptr, sub being the element parsed:
\* val.Elem().Set(subval) panics when the element parsed is not of the
\* type pointed to.
ParsePtr(kind, sub) ==
    IF sub.panic THEN [sub EXCEPT !.val = NilPtr(sub.val), !.type = kind]
    ELSE IF sub.err # Nil
    THEN [err |-> Wrap(sub.err, "Failed to parse string to pointer"),
          panic |-> FALSE, val |-> NilPtr(sub.val), type |-> kind]
    ELSE IF sub.type # Elem(kind)
    THEN [err |-> Nil, panic |-> TRUE, val |-> NilPtr(sub.val), type |-> kind]
    ELSE [err |-> Nil, panic |-> FALSE, val |-> PtrTo(sub.val), type |-> kind]

\* utils.ParseString(t, value), by the kind of t: [err, panic, val, type],
\* type being the type of the value returned, on a build whose int and
\* uint have that many bits (strconv.IntSize).  The types int64 and
\* time.Duration are both of kind reflect.Int64; a slice is read as a
\* []string and a map as a map[string]string whatever their elements.
RECURSIVE ParseString(_, _, _)
ParseString(bits, kind, value) ==
    CASE kind \in PtrKinds -> ParsePtr(kind, ParseString(bits, Elem(kind), value))
      [] kind = "bool" ->
            Parsed1(ParseBool(value), "Failed to parse string to bool", "bool")
      [] kind = "string" ->
            [err |-> Nil, panic |-> FALSE, val |-> value, type |-> "string"]
      [] kind = "int" ->
            ParsedInteger(ParseInt(value), IntOf(bits, ParseInt(value).val),
                          "Failed to parse string to int64", "int")
      [] kind \in {"int8", "int16", "int32"} ->
            ParsedSized(ParseIntSize(value, CASE kind = "int8" -> 8
                                              [] kind = "int16" -> 16
                                              [] kind = "int32" -> 32),
                        "Failed to parse string to int64", kind)
      [] kind \in {"int64", "duration"} ->
            ParseInt64OrDuration(ParseInt(value), ParseDuration(value))
      [] kind = "uint" ->
            ParsedInteger(ParseUintSize(value, 64),
                          UintOf(bits, ParseUintSize(value, 64).val),
                          "Failed to parse string to uint64", "uint")
      [] kind \in {"uint8", "uint16", "uint32", "uint64"} ->
            ParsedSized(ParseUintSize(value, CASE kind = "uint8" -> 8
                                               [] kind = "uint16" -> 16
                                               [] kind = "uint32" -> 32
                                               [] kind = "uint64" -> 64),
                        "Failed to parse string to uint64", kind)
      [] kind \in {"float32", "float64"} ->
            Parsed1(ParseFloat(value, IF kind = "float32" THEN 32 ELSE 64),
                    "Failed to parse string to float64", kind)
      [] kind \in SliceKinds ->
            Parsed1(JSONUnmarshal(value), "Failed to parse string to []string",
                    "slice")
      [] kind \in MapKinds ->
            Parsed1(JSONUnmarshalMap(value),
                    "Failed to parse string to map[string]string", "map")
      [] OTHER -> [err |-> <<"Unsupported type">>, panic |-> FALSE,
                   val |-> value, type |-> kind]

\* The kind of a field of a struct type.
FieldKind(t, fieldname) ==
    LET fs == Types[t].fields
        i  == CHOOSE i \in 1..Len(fs) : fs[i].name = fieldname
    IN  fs[i].kind

\* SetField setting the field to what ParseString returned even with an
\* error: the zero value.
SetParsedZeroing(h, obj, fieldname, kind, p) ==
    IF p.panic THEN [err |-> Nil, panic |-> TRUE, heap |-> h]
    ELSE IF p.err # Nil
    THEN [err |-> <<"Failed to parse value">>, panic |-> FALSE,
          heap |-> [h EXCEPT ![obj.o][fieldname] =
                       IF kind = "duration" THEN ZeroDuration ELSE p.val]]
    ELSE IF p.type # kind
    THEN [err |-> Nil, panic |-> TRUE, heap |-> h]
    ELSE [err |-> Nil, panic |-> FALSE,
          heap |-> [h EXCEPT ![obj.o][fieldname] = p.val]]

\* SetField for the field's kind and the parsed value p: ParseString may
\* have panicked, and field.Set(val) panics when the value's type is not
\* the field's.
SetParsed(h, obj, fieldname, kind, p) ==
    IF p.panic THEN [err |-> Nil, panic |-> TRUE, heap |-> h]
    ELSE IF p.err # Nil
    THEN [err |-> <<"Failed to parse value">>, panic |-> FALSE, heap |-> h]
    ELSE IF p.type # kind
    THEN [err |-> Nil, panic |-> TRUE, heap |-> h]
    ELSE [err |-> Nil, panic |-> FALSE,
          heap |-> [h EXCEPT ![obj.o][fieldname] = p.val]]

\* utils.SetField(obj, fieldname, value): [err, panic, heap].  A nil object
\* is left alone without an error; a value that does not parse leaves the
\* field as it was.
SetField(bits, h, obj, fieldname, value) ==
    IF obj.o = NilObj THEN [err |-> Nil, panic |-> FALSE, heap |-> h]
    ELSE SetParsed(h, obj, fieldname, FieldKind(obj.t, fieldname),
                   ParseString(bits, FieldKind(obj.t, fieldname), value))

----------------------------------------------------------------------------
(* The flag surface: flagSetter and flagTarget of flags.go, filled by       *)
(* setupFlagSet and setupNamedFlagStruct of commander.go.  A surface is the *)
(* map from flag name to its target (object, field).                       *)

\* parseFlagDirective / parseSubcommandDirective: the name before the first
\* comma of the payload (the rest is the description).
parseFlagDirective(directive) == SplitN2(directive, ",")[1]

parseSubcommandDirective(directive) == SplitN2(directive, ",")[1]

\* parseFlagDirective, its second result: the usage of the flag, everything
\* after the first comma of the payload, a fixed text when there is none.
parseFlagUsage(directive) ==
    IF Len(SplitN2(directive, ",")) = 1
    THEN <<"N", "o", " ", "u", "s", "a", "g", "e", " ", "f", "o", "u", "n", "d", " ", "f", "o", "r", " ", "t", "h", "i", "s", " ", "f", "l", "a", "g", ".">>
    ELSE SplitN2(directive, ",")[2]

\* newFlagTarget bound to the first field of the struct, whatever the field.
newFlagTargetFirstField(obj, field) ==
    [object |-> obj, field |-> Types[obj.t].fields[1].name, kind |-> field.kind]

\* newFlagTarget
newFlagTarget(obj, field) ==
    [object |-> obj, field |-> field.name, kind |-> field.kind]

\* addTarget with a name bound twice taking its second target.
addTargetOverwrite(targets, name, obj, field) ==
    [err |-> Nil,
     targets |-> (name :> newFlagTarget(obj, field)) @@ targets]

\* flagSetter.addTarget: [err, targets]; a name bound twice is an error.
addTarget(targets, name, obj, field) ==
    IF name \in DOMAIN targets
    THEN [err |-> <<"Duplicate binding of flag">>, targets |-> targets]
    ELSE [err |-> Nil, targets |-> targets @@ (name :> newFlagTarget(obj, field))]

\* flagSetter.setFlag
setFlag(targets, obj, field, directive) ==
    addTarget(targets, parseFlagDirective(directive), obj, field)

\* derefFlagStruct that finds no nested node.
derefFlagStructNone(h, app, field) ==
    [err |-> Nil, none |-> TRUE, iface |-> app]

\* derefFlagStruct: the nested node of a flagstruct field, as a pointer;
\* none when the enclosing node itself is nil.
derefFlagStruct(h, app, field) ==
    IF app.o = NilObj THEN [err |-> Nil, none |-> TRUE, iface |-> app]
    ELSE [err |-> Nil, none |-> FALSE, iface |-> h[app.o][field.name]]

\* The test of setupFlagSet for a flagstruct field whose flags belong to the
\* surface of the node: the tag is the directive alone.
unscopedFlagStruct(split) ==
    split[1] = FlagStructDirective /\ Len(split) = 1

RECURSIVE setupFlagSetFrom(_, _, _, _)

\* The loop of setupFlagSet over the elements of a flagslice field, from
\* element j on: [err, targets].
RECURSIVE setupFlagSlice(_, _, _, _)
setupFlagSlice(h, items, j, targets) ==
    IF j > Len(items) THEN [err |-> Nil, targets |-> targets]
    ELSE LET r == setupFlagSetFrom(h, items[j], 1, targets) IN
         IF r.err # Nil
         THEN [err |-> Wrap(r.err, "failed to get flagset for slice element"),
               targets |-> r.targets]
         ELSE setupFlagSlice(h, items, j + 1, r.targets)

\* The body of the loop of setupFlagSet for field i, split being its tag
\* split at "=": [err, targets].  A flagslice field of kind "slice" holds
\* nodes; the elements of one of kind "[]int" are no structs, and
\* setupFlagSet refuses the first of them.
RECURSIVE setupFlagSetField(_, _, _, _, _, _)
setupFlagSetField(h, app, i, targets, field, split) ==
    IF field.tag = <<>> THEN setupFlagSetFrom(h, app, i + 1, targets)
    ELSE IF Len(split) # 2
            /\ split[1] \in {FlagDirective, SubcommandDirective}
    THEN [err |-> <<"malformed tag on application">>, targets |-> targets]
    ELSE IF split[1] = FlagDirective
    THEN LET r == setFlag(targets, app, field, split[2]) IN
         IF r.err # Nil
         THEN [err |-> Wrap(r.err, "failed to setup flag for application"),
               targets |-> targets]
         ELSE setupFlagSetFrom(h, app, i + 1, r.targets)
    ELSE IF unscopedFlagStruct(split)
    THEN LET d == derefFlagStruct(h, app, field) IN
         IF d.none THEN setupFlagSetFrom(h, app, i + 1, targets)
         ELSE LET r == setupFlagSetFrom(h, d.iface, 1, targets) IN
              IF r.err # Nil
              THEN [err |-> Wrap(r.err, "failed to get flagset for sub-struct"),
                    targets |-> r.targets]
              ELSE setupFlagSetFrom(h, app, i + 1, r.targets)
    ELSE IF split[1] = FlagSliceDirective
    THEN IF app.o = NilObj THEN [err |-> Nil, targets |-> targets]
         ELSE IF field.kind \notin SliceKinds
         THEN [err |-> <<"FlagSlice directive should only be used on slice fields">>,
               targets |-> targets]
         ELSE IF field.kind = "[]int"
         THEN IF h[app.o][field.name].elems = <<>>
              THEN setupFlagSetFrom(h, app, i + 1, targets)
              ELSE [err |-> Wrap(<<"application needs to be a struct or a pointer to a struct">>,
                                 "failed to get flagset for slice element"),
                    targets |-> targets]
         ELSE LET r == setupFlagSlice(h, h[app.o][field.name], 1, targets) IN
              IF r.err # Nil THEN r
              ELSE setupFlagSetFrom(h, app, i + 1, r.targets)
    ELSE setupFlagSetFrom(h, app, i + 1, targets)

\* setupFlagSet from field i on: [err, targets].
setupFlagSetFrom(h, app, i, targets) ==
    IF i > Len(Types[app.t].fields) THEN [err |-> Nil, targets |-> targets]
    ELSE setupFlagSetField(h, app, i, targets, Types[app.t].fields[i],
                           Split(Types[app.t].fields[i].tag, "="))

\* setupFlagSet(app, setter)
setupFlagSet(h, app, targets) == setupFlagSetFrom(h, app, 1, targets)

\* GetFlagSet returning the setter whatever setupFlagSet returned.
GetFlagSetReturnSetter(r) == [err |-> Nil, formal |-> r.targets]

\* What GetFlagSet returns once setupFlagSet has: the setter finished, or
\* the error.
GetFlagSetReturn(r) ==
    IF r.err # Nil
    THEN [err |-> <<"failed to get flagset">>, formal |-> <<>>]
    ELSE [err |-> Nil, formal |-> r.targets]

\* Commander.GetFlagSet: [err, formal], formal being the flags registered
\* with the flag.FlagSet by setter.finish().
GetFlagSet(h, app) == GetFlagSetReturn(setupFlagSet(h, app, <<>>))

\* normalizeCommand that keeps the case of the letters.
normalizeCommandKeepCase(cmd) == RemoveChar(RemoveChar(cmd, "-"), "_")

\* normalizeCommand: '-' and '_' removed, lowercased.
normalizeCommand(cmd) == ToLower(RemoveChar(RemoveChar(cmd, "-"), "_"))

\* setupNamedFlagStruct from field i on: the flags of the flagstruct fields
\* scoped to cmd, collected by a setter of their own: [err, targets].
RECURSIVE setupNamedFlagStructFrom(_, _, _, _, _)

\* The loop body of setupNamedFlagStruct with the scope test turned round:
\* the flagstructs scoped to the other commands are taken.
setupNamedFieldInverted(h, app, cmd, i, targets, field, split) ==
    IF field.tag = <<>> THEN setupNamedFlagStructFrom(h, app, cmd, i + 1, targets)
    ELSE IF Len(split) # 2 \/ split[1] # FlagStructDirective
    THEN setupNamedFlagStructFrom(h, app, cmd, i + 1, targets)
    ELSE IF normalizeCommand(split[2]) = normalizeCommand(cmd)
    THEN setupNamedFlagStructFrom(h, app, cmd, i + 1, targets)
    ELSE LET d == derefFlagStruct(h, app, field) IN
         IF d.none THEN setupNamedFlagStructFrom(h, app, cmd, i + 1, targets)
         ELSE LET r == setupFlagSet(h, d.iface, targets) IN
              IF r.err # Nil
              THEN [err |-> Wrap(r.err, "failed to get flagset for sub-struct"),
                    targets |-> r.targets]
              ELSE setupNamedFlagStructFrom(h, app, cmd, i + 1, r.targets)

\* The body of the loop of setupNamedFlagStruct for field i.
setupNamedField(h, app, cmd, i, targets, field, split) ==
    IF field.tag = <<>> THEN setupNamedFlagStructFrom(h, app, cmd, i + 1, targets)
    ELSE IF Len(split) # 2 \/ split[1] # FlagStructDirective
    THEN setupNamedFlagStructFrom(h, app, cmd, i + 1, targets)
    ELSE IF normalizeCommand(split[2]) # normalizeCommand(cmd)
    THEN setupNamedFlagStructFrom(h, app, cmd, i + 1, targets)
    ELSE LET d == derefFlagStruct(h, app, field) IN
         IF d.none THEN setupNamedFlagStructFrom(h, app, cmd, i + 1, targets)
         ELSE LET r == setupFlagSet(h, d.iface, targets) IN
              IF r.err # Nil
              THEN [err |-> Wrap(r.err, "failed to get flagset for sub-struct"),
                    targets |-> r.targets]
              ELSE setupNamedFlagStructFrom(h, app, cmd, i + 1, r.targets)

setupNamedFlagStructFrom(h, app, cmd, i, targets) ==
    IF i > Len(Types[app.t].fields) THEN [err |-> Nil, targets |-> targets]
    ELSE setupNamedField(h, app, cmd, i, targets, Types[app.t].fields[i],
                         Split(Types[app.t].fields[i].tag, "="))

\* The scoped flags registered by finish() with the flag.FlagSet that
\* already holds the node's own: flag.FlagSet.Var panics on a name it
\* already has.
finishNamed(r, formal) ==
    IF DOMAIN r.targets \cap DOMAIN formal # {}
    THEN [err |-> Nil, panic |-> TRUE, formal |-> formal]
    ELSE [err |-> r.err, panic |-> FALSE, formal |-> formal @@ r.targets]

\* setupNamedFlagStruct(app, cmd, flagset): [err, panic, formal]
setupNamedFlagStruct(h, app, cmd, formal) ==
    finishNamed(setupNamedFlagStructFrom(h, app, cmd, 1, <<>>), formal)

----------------------------------------------------------------------------
(* flag.FlagSet.Parse of the standard library, as the flags of a surface    *)
(* are all flag.Value targets: [err, panic, args, heap], args being what    *)
(* flagset.Args() returns afterwards.  A panic of a target's Set is not     *)
(* recovered.                                                              *)

\* flagTarget.Set
TargetSet(bits, h, target, value) == SetField(bits, h, target.object, target.field, value)

\* A result of flag.FlagSet.Parse: [err, panic, args, heap].
Parsed(e, args, h) == [err |-> e, panic |-> FALSE, args |-> args, heap |-> h]

RECURSIVE FlagParse(_, _, _, _)

\* parseOne once the flag's Set has returned r: a panic is not recovered, an
\* error ends the parse with msg, and the parse goes on otherwise.
AfterSet(bits, formal, h, after, r, msg) ==
    IF r.panic
    THEN [err |-> Nil, panic |-> TRUE, args |-> after, heap |-> h]
    ELSE IF r.err # Nil
    THEN Parsed(msg, after, h)
    ELSE FlagParse(bits, formal, r.heap, after)

\* parseOne for a flag of the set: a boolean flag takes no token of its
\* own, any other takes the inline value or the next token.
ParseDefined(bits, formal, h, rest, target, hasValue, inline) ==
    IF target.kind = "bool"
    THEN AfterSet(bits, formal, h, rest,
                  TargetSet(bits, h, target, IF hasValue THEN inline ELSE t_true),
                  <<"invalid boolean value for flag">>)
    ELSE IF ~hasValue /\ rest = <<>>
    THEN Parsed(<<"flag needs an argument">>, rest, h)
    ELSE AfterSet(bits, formal, h, IF hasValue THEN rest ELSE Tail(rest),
                  TargetSet(bits, h, target, IF hasValue THEN inline ELSE rest[1]),
                  <<"invalid value for flag">>)

\* parseOne for the flag token full, its dashes dropped, eq being the place
\* of its first "=", 0 without one.
ParseNamed(bits, formal, h, rest, full, eq) ==
    IF (IF eq > 0 THEN SubSeq(full, 1, eq - 1) ELSE full) \notin DOMAIN formal
    THEN IF (IF eq > 0 THEN SubSeq(full, 1, eq - 1) ELSE full)
               \in {<<"h">>, <<"h", "e", "l", "p">>}
         THEN Parsed(<<"flag: help requested">>, rest, h)
         ELSE Parsed(<<"flag provided but not defined">>, rest, h)
    ELSE ParseDefined(bits, formal, h, rest,
                      formal[IF eq > 0 THEN SubSeq(full, 1, eq - 1) ELSE full],
                      eq > 0, SubSeq(full, eq + 1, Len(full)))

\* parseOne for the token s, which starts with numMinuses dashes.  A token
\* of bad syntax is refused before it is taken off the arguments.
ParseDashed(bits, formal, h, args, s, numMinuses) ==
    IF numMinuses = 2 /\ Len(s) = 2
    THEN Parsed(Nil, Tail(args), h)
    ELSE IF s[numMinuses + 1] \in {"-", "="}
    THEN Parsed(<<"bad flag syntax">>, args, h)
    ELSE ParseNamed(bits, formal, h, Tail(args), SubSeq(s, numMinuses + 1, Len(s)),
                    IndexOf(SubSeq(s, numMinuses + 1, Len(s)), "="))

FlagParse(bits, formal, h, args) ==
    IF args = <<>> THEN Parsed(Nil, args, h)
    ELSE IF Len(args[1]) < 2 \/ args[1][1] # "-" THEN Parsed(Nil, args, h)
    ELSE ParseDashed(bits, formal, h, args, args[1],
                     IF args[1][2] = "-" THEN 2 ELSE 1)

----------------------------------------------------------------------------
(* Subcommand resolution and command lookup.                               *)

\* subCommand(app, cmd) from field i on: [err, found, subapp].  The field's
\* value is returned as it is, a nil pointer included.
RECURSIVE subCommandFrom(_, _, _, _)

\* The body of the loop of subCommand for field i.
subCommandField(h, app, cmd, i, field, split) ==
    IF field.tag = <<>> THEN subCommandFrom(h, app, cmd, i + 1)
    ELSE IF Len(split) # 2
            /\ split[1] \in {FlagDirective, SubcommandDirective}
    THEN [err |-> <<"malformed tag on application">>,
          found |-> FALSE, subapp |-> app]
    ELSE IF split[1] # SubcommandDirective
    THEN subCommandFrom(h, app, cmd, i + 1)
    ELSE IF parseSubcommandDirective(split[2]) # cmd
    THEN subCommandFrom(h, app, cmd, i + 1)
    ELSE IF app.o = NilObj
    THEN [err |-> <<"failed to get subcommand from field">>,
          found |-> FALSE, subapp |-> app]
    ELSE [err |-> Nil, found |-> TRUE, subapp |-> h[app.o][field.name]]

subCommandFrom(h, app, cmd, i) ==
    IF i > Len(Types[app.t].fields)
    THEN [err |-> Nil, found |-> FALSE, subapp |-> app]
    ELSE subCommandField(h, app, cmd, i, Types[app.t].fields[i],
                         Split(Types[app.t].fields[i].tag, "="))

subCommand(h, app, cmd) == subCommandFrom(h, app, cmd, 1)

\* getPossibleCommands without the default command.
getPossibleCommandsNoDefault(args, cumulative) ==
    (IF Len(args) > 0 THEN <<args[1]>> ELSE <<>>)
        \o (IF Len(cumulative) > 0
            THEN <<cumulative[Len(cumulative)]>> ELSE <<>>)

\* getPossibleCommands with CommanderDefault tried before the subcommand
\* token consumed last.
getPossibleCommandsDefaultSecond(args, cumulative) ==
    (IF Len(args) > 0 THEN <<args[1]>> ELSE <<>>)
        \o <<DefaultCommand>>
        \o (IF Len(cumulative) > 0
            THEN <<cumulative[Len(cumulative)]>> ELSE <<>>)

\* getPossibleCommands: the candidates for the command, in order.
getPossibleCommands(args, cumulative) ==
    LET prev  == IF Len(cumulative) > 0
                 THEN <<cumulative[Len(cumulative)]>> ELSE <<>>
        first == IF Len(args) > 0 THEN <<args[1]>> ELSE <<>>
    IN  first \o prev \o <<DefaultCommand>>

\* The methods of the node that the normalised name matches, by index.
MatchingMethods(app, cmd) ==
    LET ms == Types[app.t].methods IN
    {i \in 1..Len(ms) : ToLower(ms[i].name) = normalizeCommand(cmd)}

\* Commander.HasCommand
HasCommand(app, cmd) == MatchingMethods(app, cmd) # {}

\* getMethod: the first method, in reflect's order, the name matches.
getMethod(app, cmd) ==
    LET found == MatchingMethods(app, cmd) IN
    Types[app.t].methods[CHOOSE i \in found : \A j \in found : i <= j]

\* findCommand: the first candidate that names a command of the node, the
\* empty string when none does.
RECURSIVE findCommand(_, _)
findCommand(app, commands) ==
    IF commands = <<>> THEN <<>>
    ELSE IF HasCommand(app, Head(commands)) THEN Head(commands)
    ELSE findCommand(app, Tail(commands))

----------------------------------------------------------------------------
(* The handlers and hooks of the fixtures: what reflect's Call runs.        *)
(* [panic, out, heap]: out is the list of returned values, each either an   *)
(* error (nil or not) or something else.                                   *)

ErrorOut(err) == <<[isError |-> TRUE, err |-> err]>>

OtherOut == <<[isError |-> FALSE, err |-> Nil]>>

Returns(out, h) == [panic |-> FALSE, out |-> out, heap |-> h]

\* A method that reads or writes a field of its receiver panics on a nil one.
OnReceiver(recv, out, h, fieldname, val) ==
    IF recv.o = NilObj THEN [panic |-> TRUE, out |-> <<>>, heap |-> h]
    ELSE Returns(out, [h EXCEPT ![recv.o][fieldname] = val])

Count(h, recv) == IF recv.o = NilObj THEN 0 ELSE h[recv.o].count

Call(body, h, recv, in) ==
    CASE body = "Application.CLIName" -> Returns(OtherOut, h)
      [] body = "Application.OpOne" ->
            IF in[1] = t_test
            THEN OnReceiver(recv, ErrorOut(Nil), h, "count", Count(h, recv) + 1)
            ELSE Returns(ErrorOut(Nil), h)
      [] body = "Application.OpThree" -> Returns(ErrorOut(errTest), h)
      [] body = "Application.OpTwo" ->
            IF in[1] = 30
            THEN OnReceiver(recv, <<>>, h, "count", Count(h, recv) + 1)
            ELSE Returns(<<>>, h)
      [] body = "Application.OpVariadic" ->
            OnReceiver(recv, <<>>, h, "count",
                       Count(h, recv) + Len(in[2].elems))
      [] body = "Application.PostFlagParse" ->
            OnReceiver(recv, ErrorOut(Nil), h, "postFlagHooked",
                       recv.o # NilObj /\ h[recv.o].IntFlag = 10)
      [] body \in {"SubApplication.OpThree", "SubSubApplication.OpDeep"} ->
            OnReceiver(recv, <<>>, h, "count", Count(h, recv) + 1)
      [] body = "SubApplication.OpFour" ->
            IF t_test \in DOMAIN in[1].kv /\ in[1].kv[t_test] = s_testing
            THEN OnReceiver(recv, <<>>, h, "count", Count(h, recv) + 1)
            ELSE Returns(<<>>, h)
      [] body = "SubApplication.SubApp" -> Returns(ErrorOut(errTest), h)
      [] body = "SubCmd.SubCmd" ->
            Returns(ErrorOut(IF in[1] # in[2] THEN errTest ELSE Nil), h)
      [] body = "SubCmd2.CommanderDefault" ->
            Returns(ErrorOut(IF in[1] # t_arg THEN errTest ELSE Nil), h)
      [] body = "SubCmd2.Cmd1" ->
            Returns(ErrorOut(IF in[1] # t_first \/ Len(in[2].elems) # 2
                             THEN errTest ELSE Nil), h)
      [] body \in {"Application3.Cmd1", "Application3.Cmd2",
                   "DefSub.CommanderDefault", "DefSub.Sub",
                   "DupRoot.PostFlagParse", "DupDirect.PostFlagParse",
                   "DupNested.PostFlagParse", "BadRoot.PostFlagParse",
                   "BadFlag.PostFlagParse", "BadSub.PostFlagParse"} ->
            Returns(ErrorOut(Nil), h)
      [] body = "HookRoot.PostFlagParse" ->
            Returns(ErrorOut(IF recv.o # NilObj /\ h[recv.o].N = 1
                             THEN errTest ELSE Nil), h)
      [] body = "HookLeaf.PostFlagParse" ->
            Returns(ErrorOut(IF recv.o # NilObj /\ h[recv.o].X = 1
                             THEN errTest ELSE Nil), h)
      [] body \in {"HookRoot.Run", "HookRoot.Sub", "HookLeaf.Run"} ->
            Returns(ErrorOut(Nil), h)
      [] OTHER -> Returns(<<>>, h)

\* The PostFlagParse method of a node that implements the hook.
HookBody(app) ==
    LET ms == Types[app.t].methods
        i  == CHOOSE i \in 1..Len(ms) : ms[i].name = m_PostFlagParse
    IN  ms[i].body

\* executeHook dropping the error the hook returns.
HookResultDropped(r) ==
    [panic |-> r.panic, ran |-> TRUE, err |-> Nil, heap |-> r.heap]

\* What executeHook makes of the hook's return: [panic, ran, err, heap]
HookResult(r) ==
    [panic |-> r.panic, ran |-> TRUE,
     err   |-> IF r.panic THEN Nil ELSE WithStack(r.out[1].err),
     heap  |-> r.heap]

\* executeHook(app): [panic, ran, err, heap]
executeHook(h, app) ==
    IF ~Types[app.t].hook
    THEN [panic |-> FALSE, ran |-> FALSE, err |-> Nil, heap |-> h]
    ELSE HookResult(Call(HookBody(app), h, app, <<>>))

----------------------------------------------------------------------------
(* runCommand: the argument count rule, the coercion of the tokens and the  *)
(* call.                                                                   *)

\* The kind of method.Type.In(inputsize): the last parameter, or the
\* receiver of a method without parameters.
LastKind(method) ==
    IF Len(method.in) = 0 THEN "ptr" ELSE method.in[Len(method.in)]

\* BindArgs with the tokens beyond the parameters of a command that ends
\* in no sequence dropped instead of refused.
BindArgsTruncating(short, method, args) ==
    IF Len(args) < Len(method.in) - 1 /\ LastKind(method) \in SliceKinds
    THEN [err |-> <<"command requires arguments">>, args |-> args]
    ELSE IF Len(args) < Len(method.in) /\ LastKind(method) \notin SliceKinds
    THEN [err |-> <<"command requires arguments">>, args |-> args]
    ELSE IF LastKind(method) \notin SliceKinds
    THEN [err |-> Nil, args |-> SubSeq(args, 1, Len(method.in))]
    ELSE IF Len(args) < Len(method.in)
    THEN [err |-> Nil, args |-> Append(args, t_emptylist)]
    ELSE [err |-> Nil,
          args |-> Append(SubSeq(args, 1, Len(method.in) - 1),
                          JSONMarshal(short, SubSeq(args, Len(method.in), Len(args))))]

\* BindArgs with the sequence starting one token late.
BindArgsOffByOne(short, method, args) ==
    IF Len(args) < Len(method.in) - 1 /\ LastKind(method) \in SliceKinds
    THEN [err |-> <<"command requires arguments">>, args |-> args]
    ELSE IF Len(args) # Len(method.in) /\ LastKind(method) \notin SliceKinds
    THEN [err |-> <<"command requires arguments">>, args |-> args]
    ELSE IF Len(args) < Len(method.in)
    THEN [err |-> Nil, args |-> Append(args, t_emptylist)]
    ELSE IF LastKind(method) \in SliceKinds
    THEN [err |-> Nil,
          args |-> Append(SubSeq(args, 1, Len(method.in) - 1),
                          JSONMarshal(short, SubSeq(args, Len(method.in) + 1, Len(args))))]
    ELSE [err |-> Nil, args |-> args]

\* The tokens as bound to the parameters: [err, args].  A trailing sequence
\* parameter takes the JSON text of the tokens left over.
BindArgs(short, method, args) ==
    LET inputsize == Len(method.in)
        isSlice   == LastKind(method) \in SliceKinds
    IN  IF Len(args) < inputsize - 1 /\ isSlice
        THEN [err |-> <<"command requires arguments">>, args |-> args]
        ELSE IF Len(args) # inputsize /\ ~isSlice
        THEN [err |-> <<"command requires arguments">>, args |-> args]
        ELSE IF Len(args) < inputsize
        THEN [err |-> Nil, args |-> Append(args, t_emptylist)]
        ELSE IF Len(args) > inputsize \/ isSlice
        THEN [err |-> Nil,
              args |-> Append(SubSeq(args, 1, inputsize - 1),
                              JSONMarshal(short, SubSeq(args, inputsize, Len(args))))]
        ELSE [err |-> Nil, args |-> args]

\* What the same branches leave in the array under args, which is the
\* array under the arguments of RunCLI and under the slice of its caller:
\* the JSON text of the tokens left over is written over the first of
\* them, args[inputsize-1], and the tokens after it stay.  The "[]" that is
\* appended for a sequence without a token lies past the end of the three
\* slices.
ArgsArray(short, method, args) ==
    LET inputsize == Len(method.in)
        isSlice   == LastKind(method) \in SliceKinds
    IN  IF Len(args) < inputsize - 1 /\ isSlice THEN args
        ELSE IF Len(args) # inputsize /\ ~isSlice THEN args
        ELSE IF Len(args) < inputsize THEN args
        ELSE IF Len(args) > inputsize \/ isSlice
        THEN [args EXCEPT ![inputsize] =
                              JSONMarshal(short, SubSeq(args, inputsize, Len(args)))]
        ELSE args

\* The loop over args calling utils.ParseString, from argument i on:
\* [err, panic, in, types], types being the types of the values in.
RECURSIVE CoerceArgs(_, _, _, _, _)
CoerceArgs(bits, method, args, i, in) ==
    IF i > Len(args)
    THEN [err |-> Nil, panic |-> FALSE, in |-> in,
          types |-> [k \in 1..Len(args) |-> ParseString(bits, method.in[k], args[k]).type]]
    ELSE LET p == ParseString(bits, method.in[i], args[i]) IN
         IF p.panic
         THEN [err |-> Nil, panic |-> TRUE, in |-> in, types |-> <<>>]
         ELSE IF p.err # Nil
         THEN [err |-> Wrap(p.err, "failed to parse string into function argument"),
               panic |-> FALSE, in |-> in, types |-> <<>>]
         ELSE CoerceArgs(bits, method, args, i + 1, Append(in, p.val))

\* A return of runCommand before the call.
NotCalled(e, h) ==
    [panic |-> FALSE, err |-> e, called |-> FALSE, name |-> <<>>,
     in |-> <<>>, ret |-> Nil, heap |-> h]

\* The values the call returned, an error among them returned as it is, not
\* marked as the application's.
CallResultUnmarked(method, in, r) ==
    [panic  |-> r.panic,
     err    |-> IF r.panic \/ r.out = <<>> THEN Nil
                ELSE IF r.out[1].isError /\ r.out[1].err # Nil
                THEN r.out[1].err
                ELSE Nil,
     called |-> TRUE, name |-> method.name, in |-> in,
     ret    |-> IF r.panic \/ r.out = <<>> \/ ~r.out[1].isError THEN Nil
                ELSE r.out[1].err,
     heap   |-> r.heap]

\* runCommand lines 289-295: what is made of the values the call returned.
CallResult(method, in, r) ==
    [panic  |-> r.panic,
     err    |-> IF r.panic \/ r.out = <<>> THEN Nil
                ELSE IF r.out[1].isError /\ r.out[1].err # Nil
                THEN applicationError(r.out[1].err)
                ELSE Nil,
     called |-> TRUE, name |-> method.name, in |-> in,
     ret    |-> IF r.panic \/ r.out = <<>> \/ ~r.out[1].isError THEN Nil
                ELSE r.out[1].err,
     heap   |-> r.heap]

\* runCommand lines 279-289: the call, once the tokens are coerced.
\* ParseString may have panicked, and method.Func.Call panics on an argument
\* whose type is not the parameter's.
CallCoerced(h, app, method, coerced) ==
    IF ~coerced.panic /\ coerced.err # Nil THEN NotCalled(coerced.err, h)
    ELSE IF coerced.panic \/ coerced.types # method.in
    THEN [panic |-> TRUE, err |-> Nil, called |-> FALSE, name |-> <<>>,
          in |-> <<>>, ret |-> Nil, heap |-> h]
    ELSE CallResult(method, coerced.in, Call(method.body, h, app, coerced.in))

\* runCommand lines 264-288, once the tokens are bound to the parameters.
CallBound(bits, h, app, method, bound) ==
    IF bound.err # Nil THEN NotCalled(bound.err, h)
    ELSE CallCoerced(h, app, method, CoerceArgs(bits, method, bound.args, 1, <<>>))

\* runCommand, once the method is found.
CallMethod(bits, short, h, app, method, args) ==
    CallBound(bits, h, app, method, BindArgs(short, method, args))

\* runCommand(app, cmd, args...): [panic, err, called, name, in, ret, heap]
runCommand(bits, short, h, app, cmd, args) == CallMethod(bits, short, h, app, getMethod(app, cmd), args)

----------------------------------------------------------------------------
(* RunCLI as a state machine: one run of Commander.RunCLI(root, input),     *)
(* stepping through the stages of its loop.                                *)

\* Token lists of at most n tokens over a vocabulary.
RECURSIVE TokenLists(_, _)
TokenLists(vocab, n) ==
    IF n = 0 THEN {<<>>}
    ELSE LET shorter == TokenLists(vocab, n - 1) IN
         shorter \cup {Append(l, t) : l \in shorter, t \in vocab}

\* The applications run and the tokens their command lines are made of.
Scenarios ==
    { [root |-> Ptr("Application", "app"),
       vocab |-> {t_subapp, t_subsubapp, t_opdeep, t_opthree, t_opone, t_test}],
      [root |-> Ptr("Application", "app"),
       vocab |-> {t_intflag, t_intflag_11, t_10, t_subapp, t_subintflag,
                  t_opthree}],
      [root |-> Ptr("Application", "app"),
       vocab |-> {t_opvariadic, t_a, t_quoted, t_OP_two, t_30}],
      [root |-> Ptr("Application2", "app2"),
       vocab |-> {t_subcmd, t_subcmd2, t_cmd1, t_arg, t_first}],
      [root |-> Ptr("Application3", "app3"),
       vocab |-> {t_cmd1, t_cmd2, t_common, t_b2, t_c2, t_1}],
      [root |-> Ptr("NestedRunner", "nested"),
       vocab |-> {t_toplevel, t_intflag, t_7, t_stringflag, t_innerint, t_x,
                  t_run}],
      [root |-> Ptr("FlagTesterNested", "ftn"),
       vocab |-> {t_toplevel, t_intflag, t_7, t_x}],
      [root |-> Ptr("FlagDurationTester", "fdt"),
       vocab |-> {t_dur, t_0, t_2s, t_4h, t_otherdur, t_otherdur_3ms}],
      [root |-> Ptr("Application", "app"),
       vocab |-> {t_subapp, t_opfour, t_map_testing, t_map_twice, t_null}],
      [root |-> Ptr("Kinds", "kinds"),
       vocab |-> {t_ratio, t_2_1, t_size_7, t_labels_ab, t_on_true, t_run}],
      [root |-> Ptr("DupRoot", "dup"),
       vocab |-> {t_direct, t_nested, t_x, t_n, t_1, t_run}],
      [root |-> Ptr("DupDirect", "dup_Direct"),
       vocab |-> {t_x, t_1, t_run}],
      [root |-> Ptr("DupNested", "dup_Nested"),
       vocab |-> {t_x, t_1, t_run}],
      [root |-> Ptr("DefApp", "def"),
       vocab |-> {t_sub, t_y, t_dashdash}],
      [root |-> Ptr("FlagTesterSliced", "sliced"),
       vocab |-> {t_intflag2, t_10, t_boolflag2}],
      [root |-> Ptr("FlagTesterSliced", "twice"),
       vocab |-> {t_intflag2, t_10}],
      [root |-> Ptr("DurationRunner", "durt"),
       vocab |-> {t_dur, t_otherdur_3ms, t_2s, t_0, t_1_5ms, t_1x, t_wait,
                  t_count, t_small}],
      [root |-> Ptr("BadRoot", "bad"),
       vocab |-> {t_badflag, t_badsub, t_run, t_n, t_1}],
      [root |-> Ptr("BadFlag", "bad_Flagged"),
       vocab |-> {t_n, t_1, t_run}],
      [root |-> Ptr("Loose", "loose"),
       vocab |-> {t_x, t_intflag2, t_1, t_run}],
      [root |-> Ptr("Application", "app"),
       vocab |-> {t_Sub_App, t_subapp, t_subapp2, t_opthree, t_subintflag, t_10}],
      [root |-> Ptr("Application3", "app3"),
       vocab |-> {t_cmd1, t_CMD_1, t_b2, t_1}],
      [root |-> Ptr("HookRoot", "hooked"),
       vocab |-> {t_n, t_1, t_sub, t_x, t_run}],
      [root |-> Ptr("Application", "app"),
       vocab |-> {t_intflag_11, t_intflag_10, t_opone, t_test}],
      [root |-> Ptr("DescCommas", "commas"),
       vocab |-> {t_v, t_1, t_run}],
      [root |-> Ptr("DescEquals", "equals"),
       vocab |-> {t_w, t_1, t_run}],
      [root |-> Ptr("DescSubEquals", "subequals"),
       vocab |-> {t_sub, t_run}],
      [root |-> Ptr("IntSizes", "sizes"),
       vocab |-> {t_small, t_tiny, t_300, t_128, t_1, t_dashdash, t_minus_1,
                  t_40000, t_70000}],
      [root |-> Ptr("IntWidths", "widths"),
       vocab |-> {t_plain, t_natural, t_3000000000, t_two32, t_two63,
                  t_two64, t_2s}],
      [root |-> Ptr("Application", "app"),
       vocab |-> {t_opvariadic, t_a, t_formfeed}] }

VARIABLES
    root,                \* the application RunCLI was called with
    intSize,             \* the bits of an int and a uint on the build
    shortEscapes,        \* encoding/json of the build writes \f, not \u000c
    commandLine,         \* the tokens RunCLI was called with
    input,               \* the slice RunCLI was called with, as it is now
    heap,                \* the fields of every node
    app,                 \* the current node
    arguments,           \* the tokens not consumed yet
    cumulativeCommands,  \* the tokens consumed as subcommands or command
    flagset,             \* the flag surface of the current node
    cmd,                 \* the located command
    pc,                  \* the stage of the loop
    err,                 \* the error RunCLI returned
    UsageOutput,         \* what was printed to commander.UsageOutput
    events               \* the parses, hooks and handler calls so far

vars == <<root, intSize, shortEscapes, commandLine, input, heap, app,
          arguments, cumulativeCommands, flagset, cmd, pc, err, UsageOutput,
          events>>

\* ret is the error a handler returned, nil when it returned none.
Event(ev, node, name, in, ret) ==
    [ev |-> ev, node |-> node, name |-> name, in |-> in, ret |-> ret]

\* The toolchain of the build shows in a run through the JSON text of a
\* form feed only: the tokens hold one as such or, where a value is read
\* from JSON, behind a backslash.
EscapesShow(tokens) ==
    \E k \in 1..Len(tokens) : \E i \in 1..Len(tokens[k]) :
        tokens[k][i] \in {"\f", "\\"}

\* A run is on a build with a 32-bit or a 64-bit int, and with the
\* encoding/json of Go 1.22 and later or the earlier one.  The command
\* lines on which the two toolchains cannot differ are run on the later.
Init ==
    /\ \E sc \in Scenarios :
          /\ root = sc.root
          /\ input \in TokenLists(sc.vocab, MaxArgs)
    /\ intSize \in {32, 64}
    /\ shortEscapes \in IF EscapesShow(input) THEN BOOLEAN ELSE {TRUE}
    /\ commandLine = input
    /\ heap = InitHeap
    /\ app = root
    /\ arguments = input
    /\ cumulativeCommands = <<>>
    /\ flagset = <<>>
    /\ cmd = <<>>
    /\ pc = "parse"
    /\ err = Nil
    /\ UsageOutput = <<>>
    /\ events = <<>>

\* return e
Return(e) ==
    /\ pc' = "done"
    /\ err' = e

\* An unrecovered panic ends the run without a return value.
Panic ==
    /\ pc' = "panic"
    /\ err' = err

\* RunCLI lines 81-85: the tokens are parsed against the flag surface.
ParseFlagsParsed(fs, p) ==
    /\ heap' = p.heap
    /\ events' = Append(events, Event("parse", app, <<>>, arguments, Nil))
    /\ flagset' = fs.formal
    /\ IF p.panic
       THEN /\ Panic
            /\ UNCHANGED arguments
       ELSE IF p.err # Nil
       THEN /\ Return(WithStack(p.err))
            /\ UNCHANGED arguments
       ELSE /\ arguments' = p.args
            /\ pc' = "route"
            /\ UNCHANGED err

\* RunCLI lines 77-80: the flag surface fs of the node is built.
ParseFlagsOn(bits, fs) ==
    IF fs.err # Nil
    THEN /\ Return(WithStack(fs.err))
         /\ UNCHANGED <<heap, arguments, flagset, events>>
    ELSE ParseFlagsParsed(fs, FlagParse(bits, fs.formal, heap, arguments))

\* RunCLI lines 77-85: the node's flag surface is built and the remaining
\* tokens are parsed against it.
ParseFlags ==
    /\ pc = "parse"
    /\ ParseFlagsOn(intSize, GetFlagSet(heap, app))
    /\ UNCHANGED <<root, intSize, shortEscapes, commandLine, input, app, cumulativeCommands, cmd, UsageOutput>>

\* The descent of RunCLI with the subcommand token left in the arguments.
DescendKeepingToken ==
    /\ pc = "route"
    /\ Len(arguments) > 0
    /\ LET s == subCommand(heap, app, arguments[1])
           k == executeHook(heap, app)
       IN  /\ s.err # Nil \/ s.found
           /\ IF s.err # Nil
              THEN /\ Return(Wrap(s.err, "failed to search for subcommand"))
                   /\ UNCHANGED <<heap, app, arguments, cumulativeCommands, events>>
              ELSE /\ events' = IF k.ran
                                THEN Append(events, Event("hook", app, <<>>, <<>>, Nil))
                                ELSE events
                   /\ heap' = k.heap
                   /\ IF k.panic
                      THEN /\ Panic
                           /\ UNCHANGED <<app, arguments, cumulativeCommands>>
                      ELSE IF k.err # Nil
                      THEN /\ Return(WithStack(k.err))
                           /\ UNCHANGED <<app, arguments, cumulativeCommands>>
                      ELSE /\ cumulativeCommands' =
                                 Append(cumulativeCommands, arguments[1])
                           /\ app' = s.subapp
                           /\ arguments' = arguments
                           /\ pc' = "parse"
                           /\ UNCHANGED err
    /\ flagset' = IF pc' = "parse" THEN <<>> ELSE flagset
    /\ UNCHANGED <<root, intSize, shortEscapes, commandLine, input, cmd, UsageOutput>>

\* RunCLI lines 87-99: the first remaining token names a subcommand of the
\* node; the node's hook runs and the loop continues on the child.
Descend ==
    /\ pc = "route"
    /\ Len(arguments) > 0
    /\ LET s == subCommand(heap, app, arguments[1])
           k == executeHook(heap, app)
       IN  /\ s.err # Nil \/ s.found
           /\ IF s.err # Nil
              THEN /\ Return(Wrap(s.err, "failed to search for subcommand"))
                   /\ UNCHANGED <<heap, app, arguments, cumulativeCommands, events>>
              ELSE /\ events' = IF k.ran
                                THEN Append(events, Event("hook", app, <<>>, <<>>, Nil))
                                ELSE events
                   /\ heap' = k.heap
                   /\ IF k.panic
                      THEN /\ Panic
                           /\ UNCHANGED <<app, arguments, cumulativeCommands>>
                      ELSE IF k.err # Nil
                      THEN /\ Return(WithStack(k.err))
                           /\ UNCHANGED <<app, arguments, cumulativeCommands>>
                      ELSE /\ cumulativeCommands' =
                                 Append(cumulativeCommands, arguments[1])
                           /\ app' = s.subapp
                           /\ arguments' = Tail(arguments)
                           /\ pc' = "parse"
                           /\ UNCHANGED err
    /\ flagset' = IF pc' = "parse" THEN <<>> ELSE flagset
    /\ UNCHANGED <<root, intSize, shortEscapes, commandLine, input, cmd, UsageOutput>>

\* PrintUsage of the application RunCLI was called with, whatever the node.
PrintUsageOfRoot(node) == [kind |-> "PrintUsage", node |-> root, cmd |-> <<>>]

\* commander.PrintUsage(app, appname)
PrintUsage(node) == [kind |-> "PrintUsage", node |-> node, cmd |-> <<>>]

\* commander.PrintUsageWithCommand(app, appname, cmd)
PrintUsageWithCommand(node, c) ==
    [kind |-> "PrintUsageWithCommand", node |-> node, cmd |-> c]

\* stripCommand with the command token dropped even when it repeats the
\* token consumed before it.
stripCommandAlways(cumul, args, c) ==
    IF Len(args) > 0 /\ c = args[1] THEN Tail(args) ELSE args

\* stripCommand with the command token never dropped.
stripCommandNever(cumul, args, c) == args

\* RunCLI lines 113-117: the tokens left once the command is located.  cumul
\* already ends with the first token.  The first token is dropped when it
\* is the command, unless it repeats the token consumed just before it.
stripCommand(cumul, args, c) ==
    IF /\ Len(args) > 0
       /\ c = args[1]
       /\ \/ Len(cumul) < 2
          \/ cumul[Len(cumul) - 1] # args[1]
    THEN Tail(args)
    ELSE args

\* The command lookup of RunCLI tried before the subcommands: a first token
\* that names a command of the node is taken as the command.
LocateCommandFirst ==
    /\ pc = "route"
    /\ IF Len(arguments) = 0 THEN TRUE
       ELSE LET s == subCommand(heap, app, arguments[1]) IN
            s.err = Nil /\ (~s.found \/ HasCommand(app, arguments[1]))
    /\ LET commands == getPossibleCommands(arguments, cumulativeCommands)
           cumul    == IF Len(arguments) > 0
                       THEN Append(cumulativeCommands, arguments[1])
                       ELSE cumulativeCommands
           c        == findCommand(app, commands)
           named    == setupNamedFlagStruct(heap, app, c, flagset)
       IN  /\ cumulativeCommands' = cumul
           /\ IF c = <<>>
              THEN /\ UsageOutput' = Append(UsageOutput, PrintUsage(app))
                   /\ Return(<<"failed to find possible method">>)
                   /\ UNCHANGED <<arguments, flagset, cmd>>
              ELSE /\ arguments' = stripCommand(cumul, arguments, c)
                   /\ UNCHANGED UsageOutput
                   /\ IF named.panic
                      THEN /\ Panic
                           /\ UNCHANGED <<flagset, cmd>>
                      ELSE IF named.err # Nil
                      THEN /\ Return(<<"failed to setup flags">>)
                           /\ UNCHANGED <<flagset, cmd>>
                      ELSE /\ flagset' = named.formal
                           /\ cmd' = c
                           /\ pc' = "execute"
                           /\ UNCHANGED err
    /\ UNCHANGED <<root, intSize, shortEscapes, commandLine, input, heap, app, events>>

\* RunCLI lines 102-121: no subcommand is named; the command is looked up
\* among the candidates, its token stripped and its scoped flags added.
LocateCommand ==
    /\ pc = "route"
    /\ IF Len(arguments) = 0 THEN TRUE
       ELSE LET s == subCommand(heap, app, arguments[1]) IN
            s.err = Nil /\ ~s.found
    /\ LET commands == getPossibleCommands(arguments, cumulativeCommands)
           cumul    == IF Len(arguments) > 0
                       THEN Append(cumulativeCommands, arguments[1])
                       ELSE cumulativeCommands
           c        == findCommand(app, commands)
           named    == setupNamedFlagStruct(heap, app, c, flagset)
       IN  /\ cumulativeCommands' = cumul
           /\ IF c = <<>>
              THEN /\ UsageOutput' = Append(UsageOutput, PrintUsage(app))
                   /\ Return(<<"failed to find possible method">>)
                   /\ UNCHANGED <<arguments, flagset, cmd>>
              ELSE /\ arguments' = stripCommand(cumul, arguments, c)
                   /\ UNCHANGED UsageOutput
                   /\ IF named.panic
                      THEN /\ Panic
                           /\ UNCHANGED <<flagset, cmd>>
                      ELSE IF named.err # Nil
                      THEN /\ Return(<<"failed to setup flags">>)
                           /\ UNCHANGED <<flagset, cmd>>
                      ELSE /\ flagset' = named.formal
                           /\ cmd' = c
                           /\ pc' = "execute"
                           /\ UNCHANGED err
    /\ UNCHANGED <<root, intSize, shortEscapes, commandLine, input, heap, app, events>>

\* executeCommand line 250: the command run after the hook, array being
\* what runCommand leaves of its tokens in their array.
AfterHookRun(node, evs, array, r) ==
    [panic |-> r.panic, err |-> r.err, heap |-> r.heap,
     events |-> IF r.called
                THEN Append(evs, Event("call", node, r.name, r.in, r.ret))
                ELSE evs,
     array |-> array]

\* executeCommand lines 245-250: the hook has run.
AfterHook(bits, short, node, c, args, evs, k) ==
    IF k.panic
    THEN [panic |-> TRUE, err |-> Nil, heap |-> k.heap, events |-> evs,
          array |-> <<>>]
    ELSE IF k.err # Nil
    THEN [panic |-> FALSE, err |-> WithStack(k.err), heap |-> k.heap,
          events |-> evs, array |-> <<>>]
    ELSE AfterHookRun(node, evs, ArgsArray(short, getMethod(node, c), args),
                      runCommand(bits, short, k.heap, node, c, args))

\* The hook of the node, if it has one, as an event.
HookEvents(node) ==
    IF Types[node.t].hook THEN <<Event("hook", node, <<>>, <<>>, Nil)>> ELSE <<>>

\* executeCommand lines 239-245: the flags have been parsed again.
AfterReparse(bits, short, node, c, evs, p) ==
    IF p.panic
    THEN [panic |-> TRUE, err |-> Nil, heap |-> p.heap, events |-> evs,
          array |-> <<>>]
    ELSE IF p.err # Nil
    THEN [panic |-> FALSE, err |-> WithStack(p.err), heap |-> p.heap,
          events |-> evs, array |-> <<>>]
    ELSE AfterHook(bits, short, node, c, p.args, evs \o HookEvents(node),
                   executeHook(p.heap, node))

\* executeCommand without the second parse of the flags.
executeCommandNoReparse(bits, short, h, node, c, args, formal) ==
    AfterReparse(bits, short, node, c, <<Event("parse", node, <<>>, args, Nil)>>,
                 Parsed(Nil, args, h))

\* executeCommand running the hook before the flags are parsed again.
executeCommandHookFirst(bits, short, h, node, c, args, formal) ==
    LET k == executeHook(h, node)
        p == FlagParse(bits, formal, k.heap, args)
        evs == HookEvents(node) \o <<Event("parse", node, <<>>, args, Nil)>>
    IN  IF k.panic
        THEN [panic |-> TRUE, err |-> Nil, heap |-> k.heap,
              events |-> HookEvents(node), array |-> <<>>]
        ELSE IF k.err # Nil
        THEN [panic |-> FALSE, err |-> WithStack(k.err), heap |-> k.heap,
              events |-> HookEvents(node), array |-> <<>>]
        ELSE IF p.panic
        THEN [panic |-> TRUE, err |-> Nil, heap |-> p.heap, events |-> evs,
              array |-> <<>>]
        ELSE IF p.err # Nil
        THEN [panic |-> FALSE, err |-> WithStack(p.err), heap |-> p.heap,
              events |-> evs, array |-> <<>>]
        ELSE AfterHookRun(node, evs, ArgsArray(short, getMethod(node, c), p.args),
                          runCommand(bits, short, p.heap, node, c, p.args))

\* executeCommand(app, cmd, args, flagset): [panic, err, heap, events,
\* array], array being the tokens runCommand was given as it leaves them
\* in their array, and empty when runCommand is not reached.
executeCommand(bits, short, h, node, c, args, formal) ==
    AfterReparse(bits, short, node, c, <<Event("parse", node, <<>>, args, Nil)>>,
                 FlagParse(bits, formal, h, args))

\* The tokens of a slice once those of tail, a slice of its end, are
\* written in the array the two share.
Overlay(tokens, tail) ==
    SubSeq(tokens, 1, Len(tokens) - Len(tail)) \o tail

\* RunCLI lines 124-131: the error of executeCommand classified.  The
\* tokens runCommand was given are the end of arguments, which is the end of
\* the slice RunCLI was called with: what runCommand wrote shows in both.
ReturnFrom(x) ==
    /\ heap' = x.heap
    /\ events' = events \o x.events
    /\ input' = Overlay(input, x.array)
    /\ arguments' = Overlay(arguments, x.array)
    /\ IF x.panic
       THEN /\ Panic
            /\ UNCHANGED UsageOutput
       ELSE IF x.err # Nil /\ ~isApplicationError(x.err)
       THEN /\ UsageOutput' = Append(UsageOutput, PrintUsageWithCommand(app, cmd))
            /\ Return(<<"failed to run application">>)
       ELSE IF x.err # Nil
       THEN /\ Return(Tail(x.err))
            /\ UNCHANGED UsageOutput
       ELSE /\ Return(Nil)
            /\ UNCHANGED UsageOutput

\* RunCLI lines 123-131: the command is executed and its error classified.
ExecuteCommand ==
    /\ pc = "execute"
    /\ ReturnFrom(executeCommand(intSize, shortEscapes, heap, app, cmd, arguments, flagset))
    /\ UNCHANGED <<root, intSize, shortEscapes, commandLine, app, cumulativeCommands, flagset, cmd>>

Next ==
    \/ ParseFlags
    \/ Descend
    \/ LocateCommand
    \/ ExecuteCommand

Spec == Init /\ [][Next]_vars

----------------------------------------------------------------------------
(* Properties.                                                             *)

\* The run is over: RunCLI returned, or panicked.
Terminated == pc \in {"done", "panic"}

\* The handler calls made so far.
CallsOf(evs) == SelectSeq(evs, LAMBDA e : e.ev = "call")

Calls == CallsOf(events)

\* The node a chain of subcommand tokens leads to from a node, each token
\* the name of a subcommand declared on the node before it and none of the
\* nodes nil.
RECURSIVE ChainNode(_, _)
ChainNode(node, toks) ==
    IF toks = <<>> THEN [ok |-> TRUE, node |-> node]
    ELSE LET s == subCommand(heap, node, Head(toks)) IN
         IF s.err = Nil /\ s.found /\ s.subapp.o # NilObj
         THEN ChainNode(s.subapp, Tail(toks))
         ELSE [ok |-> FALSE, node |-> node]

\* The last parameter of the method is a sequence.
SeqTerminated(method) ==
    Len(method.in) > 0 /\ method.in[Len(method.in)] \in SliceKinds

\* The argument count the method allows.
CountAllowed(method, k) ==
    IF SeqTerminated(method) THEN k >= Len(method.in) - 1
    ELSE k = Len(method.in)

\* The parameters of the method accept the tokens: their number fits and
\* each token that binds to a parameter of its own parses to a value of its
\* type.
Accepts(method, args) ==
    /\ CountAllowed(method, Len(args))
    /\ \A i \in 1..Len(method.in) :
          ~(SeqTerminated(method) /\ i = Len(method.in))
             => /\ ParseString(intSize, method.in[i], args[i]).err = Nil
                /\ ParseString(intSize, method.in[i], args[i]).type = method.in[i]

\* The values the parameters of the method are to receive for the tokens.
ExpectedIn(method, args) ==
    [i \in 1..Len(method.in) |->
        IF SeqTerminated(method) /\ i = Len(method.in)
        THEN Slice(SubSeq(args, i, Len(args)))
        ELSE ParseString(intSize, method.in[i], args[i]).val]

\* No token of the command line is written as a flag.
NoFlagTokens == \A i \in 1..Len(commandLine) : commandLine[i][1] # "-"

\* The flag surface of every node on the chain of the first n tokens builds.
SurfacesBuild(n) ==
    \A i \in 0..n :
        GetFlagSet(heap, ChainNode(root, SubSeq(commandLine, 1, i)).node).err = Nil

\* The command line is a chain of n subcommands, a leaf command of the node
\* they lead to and arguments the leaf accepts.
LeafCase(n) ==
    LET c == ChainNode(root, SubSeq(commandLine, 1, n)) IN
    /\ NoFlagTokens
    /\ c.ok
    /\ SurfacesBuild(n)
    /\ ~subCommand(heap, c.node, commandLine[n + 1]).found
    /\ HasCommand(c.node, commandLine[n + 1])
    /\ Accepts(getMethod(c.node, commandLine[n + 1]),
               SubSeq(commandLine, n + 2, Len(commandLine)))

\* The leaf of that command line was invoked on the node the chain leads
\* to, once, with the arguments coerced, and RunCLI returned nil if the
\* handler returned no error.
LeafInvoked(n) ==
    LET node   == ChainNode(root, SubSeq(commandLine, 1, n)).node
        method == getMethod(node, commandLine[n + 1])
        args   == SubSeq(commandLine, n + 2, Len(commandLine))
    IN  /\ pc = "done"
        /\ Len(Calls) = 1
        /\ Calls[1].node = node
        /\ Calls[1].name = method.name
        /\ Calls[1].in = ExpectedIn(method, args)
        /\ Calls[1].ret = Nil => err = Nil

\* C1 as stated: for every chain of n >= 0 nested non-nil subcommand nodes
\* and tokens [cmd1, ..., cmdn, leaf, args...] with leaf a command of the
\* nth node whose parameters accept args, RunCLI invokes that command on the
\* nth node, once, with args coerced in order, and returns nil when the
\* handler returns no error.
C1_AsStated ==
    Terminated =>
        \A n \in 0..(Len(commandLine) - 1) : LeafCase(n) => LeafInvoked(n)

\* C1, amended: the same, for a leaf token that differs from the subcommand
\* token consumed just before it (n = 0, or leaf # cmdn).  A leaf that
\* repeats cmdn is not stripped and becomes the first argument.
C1_ChainDispatch ==
    Terminated =>
        \A n \in 0..(Len(commandLine) - 1) :
            LeafCase(n) /\ (n > 0 => commandLine[n + 1] # commandLine[n])
                => LeafInvoked(n)

\* C1 witness: [subapp, subsubapp, opdeep] ran OpDeep on the node two
\* levels down, once, and returned nil.
C1_Witness ==
    /\ pc = "done"
    /\ commandLine = <<t_subapp, t_subsubapp, t_opdeep>>
    /\ LeafCase(2)
    /\ Len(Calls) = 1
    /\ Calls[1].node = Ptr("SubSubApplication", "app_SubSubApp")
    /\ Calls[1].name = m_OpDeep
    /\ heap.app_SubSubApp.count = 1
    /\ err = Nil

\* C2: when the located handler is invoked and returns a non-nil error e,
\* RunCLI returns e itself, unwrapped and unmarked, and nothing has been
\* written to UsageOutput.
C2_HandlerErrorReturned ==
    \A i \in 1..Len(Calls) :
        Terminated /\ Calls[i].ret # Nil
            => /\ pc = "done"
               /\ err = Calls[i].ret
               /\ UsageOutput = <<>>

\* C2 witness: [opthree] called Application.OpThree, which returned errTest,
\* and RunCLI returned errTest.
C2_Witness ==
    /\ pc = "done"
    /\ commandLine = <<t_opthree>>
    /\ Len(Calls) = 1
    /\ Calls[1].name = m_OpThree
    /\ Calls[1].ret = errTest
    /\ err = errTest
    /\ UsageOutput = <<>>

\* The flags parsed again at the execute stage, as executeCommand does.
Reparsed == FlagParse(intSize, flagset, heap, arguments)

\* The execute stage reaches runCommand: the reparse succeeds, no flag
\* target panicking, and the hook of the node passes.  Reparsed.args are then the argument tokens left.
AtBinding ==
    /\ pc = "execute"
    /\ ~Reparsed.panic
    /\ Reparsed.err = Nil
    /\ ~executeHook(Reparsed.heap, app).panic
    /\ executeHook(Reparsed.heap, app).err = Nil

\* The located command.
Handler == getMethod(app, cmd)

\* The step invokes the handler.
CalledNow ==
    /\ Len(events') > Len(events)
    /\ events'[Len(events')].ev = "call"

\* C3: for a located command of N parameters and k argument tokens left
\* after the flag reparse, the handler is invoked only when k = N (last
\* parameter not a sequence) or k >= N-1 (last parameter a sequence); in
\* every other case RunCLI returns a dispatch error, not a handler's, prints
\* the usage and does not invoke the handler.
C3_ArgumentCount ==
    [][AtBinding =>
          /\ CalledNow => CountAllowed(Handler, Len(Reparsed.args))
          /\ ~CountAllowed(Handler, Len(Reparsed.args)) =>
                /\ ~CalledNow
                /\ pc' = "done"
                /\ err' = <<"failed to run application">>
                /\ UsageOutput' =
                      Append(UsageOutput,
                             [kind |-> "PrintUsageWithCommand",
                              node |-> app, cmd |-> cmd])]_vars

\* C3 witness: [opone] located OpOne, which takes one argument, with none
\* left: a dispatch error, the usage printed, no handler called.
C3_Witness ==
    /\ pc = "done"
    /\ commandLine = <<t_opone>>
    /\ cmd = t_opone
    /\ arguments = <<>>
    /\ err = <<"failed to run application">>
    /\ Len(UsageOutput) = 1
    /\ UsageOutput[1].kind = "PrintUsageWithCommand"
    /\ Calls = <<>>

\* C4: a command of N parameters, the last a sequence, given k >= N-1
\* argument tokens is called with the first N-1 tokens as its first N-1
\* parameters and tokens N..k, in order, as the last: the empty sequence
\* when k = N-1.
C4_VariadicPacking ==
    [][/\ AtBinding
       /\ SeqTerminated(Handler)
       /\ Accepts(Handler, Reparsed.args)
       => /\ CalledNow
          /\ Len(events'[Len(events')].in) = Len(Handler.in)
          /\ \A i \in 1..Len(Handler.in) :
                events'[Len(events')].in[i] =
                    IF i = Len(Handler.in)
                    THEN Slice(SubSeq(Reparsed.args, i, Len(Reparsed.args)))
                    ELSE ParseString(intSize, Handler.in[i], Reparsed.args[i]).val]_vars

\* C4 witness: [opvariadic, a, b"\c, 30] called OpVariadic("a", [b"\c, 30]).
C4_Witness ==
    /\ pc = "done"
    /\ commandLine = <<t_opvariadic, t_a, t_quoted, t_30>>
    /\ Len(Calls) = 1
    /\ Calls[1].name = m_OpVariadic
    /\ Calls[1].in = <<t_a, Slice(<<t_quoted, t_30>>)>>
    /\ heap.app.count = 2
    /\ err = Nil

\* [opvariadic, a, form feed] called OpVariadic("a", [form feed]) on the
\* build whose encoding/json writes \f, and left ["\f"] in the slice of the
\* caller.
C4_FormFeedShort ==
    /\ pc = "done"
    /\ shortEscapes
    /\ commandLine = <<t_opvariadic, t_a, t_formfeed>>
    /\ Len(Calls) = 1
    /\ Calls[1].in = <<t_a, Slice(<<t_formfeed>>)>>
    /\ input = <<t_opvariadic, t_a, <<"[", "\"", "\\", "f", "\"", "]">>>>

\* The same on the build whose encoding/json writes \u000c.
C4_FormFeedLong ==
    /\ pc = "done"
    /\ ~shortEscapes
    /\ commandLine = <<t_opvariadic, t_a, t_formfeed>>
    /\ Len(Calls) = 1
    /\ Calls[1].in = <<t_a, Slice(<<t_formfeed>>)>>
    /\ input = <<t_opvariadic, t_a,
                 <<"[", "\"", "\\", "u", "0", "0", "0", "c", "\"", "]">>>>

\* The route stage finds that the first remaining token names no subcommand
\* and no command of the node.
Unmatched ==
    /\ pc = "route"
    /\ Len(arguments) > 0
    /\ subCommand(heap, app, arguments[1]).err = Nil
    /\ ~subCommand(heap, app, arguments[1]).found
    /\ ~HasCommand(app, arguments[1])

\* The node has a command named by the subcommand token consumed to reach
\* it.
NamedAfterSubcommand ==
    /\ cumulativeCommands # <<>>
    /\ HasCommand(app, cumulativeCommands[Len(cumulativeCommands)])

\* CommanderDefault is located and given all the remaining tokens, the
\* unmatched one first.
DefaultLocated ==
    /\ pc' = "execute"
    /\ cmd' = DefaultCommand
    /\ arguments' = arguments

\* Once located, CommanderDefault is called with the tokens left, if it
\* accepts them.
DefaultCalled ==
    /\ AtBinding
    /\ cmd = DefaultCommand
    /\ Accepts(Handler, Reparsed.args)
    => /\ CalledNow
       /\ events'[Len(events')].name = DefaultCommand
       /\ events'[Len(events')].in = ExpectedIn(Handler, Reparsed.args)

\* C5 as stated: when the first remaining token matches no subcommand and
\* no command of the node and the node defines CommanderDefault, RunCLI
\* invokes CommanderDefault with the unmatched token first and the other
\* remaining tokens after it.
C5_AsStated ==
    [][/\ Unmatched /\ HasCommand(app, DefaultCommand) => DefaultLocated
       /\ DefaultCalled]_vars

\* C5, amended: the same, when the node has no command named by the
\* subcommand token consumed to reach it; such a command is tried before
\* CommanderDefault.
C5_DefaultFallback ==
    [][/\ Unmatched /\ HasCommand(app, DefaultCommand) /\ ~NamedAfterSubcommand
          => DefaultLocated
       /\ DefaultCalled]_vars

\* C5 witness: [subcmd2, arg] called SubCmd2.CommanderDefault("arg").
C5_Witness ==
    /\ pc = "done"
    /\ commandLine = <<t_subcmd2, t_arg>>
    /\ cmd = DefaultCommand
    /\ Len(Calls) = 1
    /\ Calls[1].node = Ptr("SubCmd2", "app2_SubCmd2")
    /\ Calls[1].name = DefaultCommand
    /\ Calls[1].in = <<t_arg>>
    /\ err = Nil

\* RunCLI prints the usage of the current node, returns an error and calls
\* no handler.
UsageAndError ==
    /\ pc' = "done"
    /\ err' # Nil
    /\ UsageOutput' = Append(UsageOutput,
                             [kind |-> "PrintUsage", node |-> app, cmd |-> <<>>])
    /\ events' = events
    /\ Calls = <<>>

\* C6 as stated: when the first remaining token matches neither a
\* subcommand nor a command of the node and the node has no
\* CommanderDefault, RunCLI prints the usage of the current level, returns
\* a non-nil error and invokes no handler.
C6_AsStated ==
    [][Unmatched /\ ~HasCommand(app, DefaultCommand) => UsageAndError]_vars

\* C6, amended: the same, when the node has no command named by the
\* subcommand token consumed to reach it; such a command is run with the
\* unmatched token as its first argument.
C6_NoCommandFound ==
    [][Unmatched /\ ~HasCommand(app, DefaultCommand) /\ ~NamedAfterSubcommand
          => UsageAndError]_vars

\* C6 witness: [subapp, subsubapp, test] found no command on the node two
\* levels down: its usage printed, an error returned, nothing called.
C6_Witness ==
    /\ pc = "done"
    /\ commandLine = <<t_subapp, t_subsubapp, t_test>>
    /\ app = Ptr("SubSubApplication", "app_SubSubApp")
    /\ UsageOutput = <<[kind |-> "PrintUsage", node |-> app, cmd |-> <<>>]>>
    /\ err = <<"failed to find possible method">>
    /\ Calls = <<>>

\* C7: a resolved subcommand removes exactly its token and the child gets
\* the rest in order; a command located by the first remaining token has
\* that token removed once, unless it repeats the subcommand token just
\* consumed to reach the node: then it stays and is the first argument, so
\* that [subcmd, subcmd, subcmd] calls SubCmd("subcmd", "subcmd").
C7_TokenConsumption ==
    [][/\ pc = "route" /\ pc' = "parse" =>
             /\ arguments' = Tail(arguments)
             /\ cumulativeCommands' = Append(cumulativeCommands, arguments[1])
             /\ app' = subCommand(heap, app, arguments[1]).subapp
       /\ pc = "route" /\ pc' = "execute" /\ Len(arguments) > 0
             /\ cmd' = arguments[1] =>
             IF /\ cumulativeCommands # <<>>
                /\ cumulativeCommands[Len(cumulativeCommands)] = arguments[1]
             THEN arguments' = arguments
             ELSE arguments' = Tail(arguments)
       /\ pc' = "done" /\ root = Ptr("Application2", "app2")
             /\ commandLine = <<t_subcmd, t_subcmd, t_subcmd>> =>
             /\ Len(CallsOf(events')) = 1
             /\ CallsOf(events')[1].name = m_SubCmd
             /\ CallsOf(events')[1].in = <<t_subcmd, t_subcmd>>]_vars

\* C7 witness: [subcmd, subcmd, subcmd] called SubCmd("subcmd", "subcmd").
C7_Witness ==
    /\ pc = "done"
    /\ commandLine = <<t_subcmd, t_subcmd, t_subcmd>>
    /\ cumulativeCommands = <<t_subcmd, t_subcmd>>
    /\ arguments = <<t_subcmd, t_subcmd>>
    /\ Len(Calls) = 1
    /\ Calls[1].name = m_SubCmd
    /\ Calls[1].in = <<t_subcmd, t_subcmd>>
    /\ err = Nil

\* The plain flags a node declares for its surface, read off the tags: its
\* own and, through flagstruct fields without a command scope and through
\* the elements of flagslice fields, those of the nested nodes, in
\* declaration order from field i on, each with the object and field it
\* stands for and the depth of nesting it is declared at.
RECURSIVE DeclaredFlags(_, _, _)

\* Those of the elements of a flagslice field, from element j on.
RECURSIVE DeclaredInSlice(_, _, _)
DeclaredInSlice(items, j, depth) ==
    IF j > Len(items) THEN <<>>
    ELSE DeclaredFlags(items[j], 1, depth) \o DeclaredInSlice(items, j + 1, depth)

DeclaredFlags(node, i, depth) ==
    IF i > Len(Types[node.t].fields) THEN <<>>
    ELSE LET field == Types[node.t].fields[i]
             parts == Split(field.tag, "=")
             rest  == DeclaredFlags(node, i + 1, depth)
         IN  IF field.tag = <<>> THEN rest
             ELSE IF Len(parts) = 2 /\ parts[1] = FlagDirective
             THEN <<[name  |-> SplitN2(parts[2], ",")[1], obj |-> node.o,
                     field |-> field.name, kind |-> field.kind,
                     depth |-> depth]>> \o rest
             ELSE IF parts = <<FlagStructDirective>> /\ node.o # NilObj
             THEN DeclaredFlags(heap[node.o][field.name], 1, depth + 1) \o rest
             ELSE IF parts[1] = FlagSliceDirective /\ field.kind = "slice"
                     /\ node.o # NilObj
             THEN DeclaredInSlice(heap[node.o][field.name], 1, depth + 1) \o rest
             ELSE rest

\* The names of those flags.
DeclaredNames(node) ==
    LET flags == DeclaredFlags(node, 1, 0) IN
    {flags[i].name : i \in 1..Len(flags)}

\* p is the beginning of s.
Prefix(p, s) == Len(s) >= Len(p) /\ SubSeq(s, 1, Len(p)) = p

\* The name a token written as a flag gives: the text between the dashes
\* and the "=".
FlagTokenName(tok) ==
    LET body == IF Prefix(<<"-", "-">>, tok) THEN SubSeq(tok, 3, Len(tok))
                ELSE SubSeq(tok, 2, Len(tok))
    IN  IF IndexOf(body, "=") > 0
        THEN SubSeq(body, 1, IndexOf(body, "=") - 1)
        ELSE body

\* The value the first tokens of the command line give the flag, written
\* --name v or --name=v: a list of one value, or none.
GivenValue(name) ==
    IF Len(commandLine) >= 2 /\ commandLine[1] = <<"-", "-">> \o name
    THEN <<commandLine[2]>>
    ELSE IF Len(commandLine) >= 1 /\ Prefix(<<"-", "-">> \o name \o <<"=">>, commandLine[1])
    THEN <<SubSeq(commandLine[1], Len(name) + 4, Len(commandLine[1]))>>
    ELSE <<>>

\* No later token names the flag again.
NotGivenAgain(name) ==
    \A i \in 2..Len(commandLine) : ~Prefix(<<"-", "-">> \o name, commandLine[i])

\* C8: a flag declared in a node nested through flagstruct fields without a
\* command scope, pointer or inline struct, at any depth, belongs to the
\* surface of the enclosing node: once the enclosing node has parsed
\* --name v, with v a token that coerces to a value of the field's type, the
\* nested field holds v.
C8_NestedFlagsFlattened ==
    /\ events # <<>>
    /\ commandLine # <<>>
    /\ GivenValue(FlagTokenName(commandLine[1])) # <<>>
    =>
    LET flags == DeclaredFlags(root, 1, 0) IN
    \A i \in 1..Len(flags) :
        LET f == flags[i] IN
        /\ f.depth >= 1
        /\ GivenValue(f.name) # <<>>
        /\ NotGivenAgain(f.name)
        /\ ParseString(intSize, f.kind, GivenValue(f.name)[1]).err = Nil
        /\ ParseString(intSize, f.kind, GivenValue(f.name)[1]).type = f.kind
        => heap[f.obj][f.field] = ParseString(intSize, f.kind, GivenValue(f.name)[1]).val

\* C8 witness: --x 7 given to the root set the field X of the struct two
\* levels down (an inline struct inside a pointer), and run was called.
C8_Witness ==
    /\ pc = "done"
    /\ root = Ptr("NestedRunner", "nested")
    /\ commandLine = <<t_x, t_7, t_run>>
    /\ \E i \in 1..Len(DeclaredFlags(root, 1, 0)) :
          /\ DeclaredFlags(root, 1, 0)[i].depth = 2
          /\ DeclaredFlags(root, 1, 0)[i].obj = "nested_Deeper"
    /\ heap.nested_Deeper.X = 7
    /\ Len(Calls) = 1
    /\ err = Nil

\* The fields of the node tagged flagstruct=C, by index.
ScopedFields(node) ==
    {i \in 1..Len(Types[node.t].fields) :
        /\ Len(Split(Types[node.t].fields[i].tag, "=")) = 2
        /\ Split(Types[node.t].fields[i].tag, "=")[1] = FlagStructDirective}

\* The command scope C of such a field.
Scope(node, i) == Split(Types[node.t].fields[i].tag, "=")[2]

\* The names of the flags declared inside such a field.
ScopedNames(node, i) ==
    DeclaredNames(heap[node.o][Types[node.t].fields[i].name])

\* The first token written as a flag is the first or the second token.
FirstFlagAt(i) ==
    /\ i \in 1..2
    /\ Len(commandLine) >= i
    /\ commandLine[i][1] = "-"
    /\ \A j \in 1..(i - 1) : commandLine[j][1] # "-"

\* The flag is in scope: the command located by the token before it
\* normalizes to the scope of a field that declares it.
InScope(i) ==
    /\ i = 2
    /\ HasCommand(root, commandLine[1])
    /\ \E s \in ScopedFields(root) :
          /\ normalizeCommand(Scope(root, s)) = normalizeCommand(commandLine[1])
          /\ FlagTokenName(commandLine[2]) \in ScopedNames(root, s)

\* C9: a flag declared inside a field tagged flagstruct=C is in the flag
\* surface only of a dispatch whose located command normalizes to C, where
\* it stands for the field of that struct; given before any command token,
\* or with another command, it makes RunCLI return an error without
\* invoking the handler.
C9_ScopedFlags ==
    /\ \A name \in DOMAIN flagset \ DeclaredNames(app) :
             /\ pc \in {"execute", "done"}
             /\ cmd # <<>>
             /\ \E s \in ScopedFields(app) :
                   /\ normalizeCommand(Scope(app, s)) = normalizeCommand(cmd)
                   /\ name \in ScopedNames(app, s)
                   /\ flagset[name].object =
                         heap[app.o][Types[app.t].fields[s].name]
    /\ \A i \in 1..2 :
          /\ Terminated
          /\ FirstFlagAt(i)
          /\ FlagTokenName(commandLine[i]) \notin DeclaredNames(root)
          /\ \E s \in ScopedFields(root) :
                FlagTokenName(commandLine[i]) \in ScopedNames(root, s)
          /\ ~InScope(i)
          => /\ pc = "done"
             /\ err # Nil
             /\ Calls = <<>>

\* C9 witness: [cmd1, --b2, 1, 1] set B.B2, scoped to cmd1, after the
\* command token and called Cmd1("1").
C9_Witness ==
    /\ pc = "done"
    /\ root = Ptr("Application3", "app3")
    /\ commandLine = <<t_cmd1, t_b2, t_1, t_1>>
    /\ FirstFlagAt(2)
    /\ InScope(2)
    /\ FlagTokenName(t_b2) \in DOMAIN flagset
    /\ FlagTokenName(t_b2) \notin DeclaredNames(root)
    /\ heap.app3_B.B2 = t_1
    /\ Len(Calls) = 1
    /\ Calls[1].name = m_Cmd1
    /\ Calls[1].in = <<t_1>>
    /\ err = Nil

\* Two of the plain flags the node declares for its surface have one name.
DuplicateFlag(node) ==
    \E i, j \in 1..Len(DeclaredFlags(node, 1, 0)) :
        /\ i < j
        /\ DeclaredFlags(node, 1, 0)[i].name = DeclaredFlags(node, 1, 0)[j].name

\* C10: when two plain flag directives of one flag surface, on the node or
\* reached through unscoped flagstructs, declare the same name, GetFlagSet
\* returns an error and RunCLI returns an error at once: no token is parsed
\* against that surface, no hook and no handler runs and no field changes.
C10_DuplicateFlag ==
    [][pc = "parse" /\ DuplicateFlag(app) =>
          /\ GetFlagSet(heap, app).err # Nil
          /\ pc' = "done"
          /\ err' # Nil
          /\ events' = events
          /\ heap' = heap
          /\ UsageOutput' = UsageOutput
          /\ app = root => events' = <<>> /\ heap' = InitHeap]_vars

\* C10 witness: a root whose own flag x is declared again inside an
\* unscoped flagstruct: RunCLI returned the error of GetFlagSet with nothing
\* parsed and nothing run.
C10_Witness ==
    /\ pc = "done"
    /\ root = Ptr("DupNested", "dup_Nested")
    /\ commandLine = <<t_x, t_1, t_run>>
    /\ DuplicateFlag(root)
    /\ err = WithStack(<<"failed to get flagset">>)
    /\ events = <<>>
    /\ heap = InitHeap

----------------------------------------------------------------------------
(* Flag slices.                                                            *)

\* The fields of the node tagged flagslice that hold a sequence, by index.
SliceFields(node) ==
    {i \in 1..Len(Types[node.t].fields) :
        /\ Types[node.t].fields[i].tag # <<>>
        /\ Split(Types[node.t].fields[i].tag, "=")[1] = FlagSliceDirective
        /\ Types[node.t].fields[i].kind = "slice"}

\* Two elements of one flagslice field of the node declare the flag name.
SharedInSlice(node, name) ==
    \E i \in SliceFields(node) :
        LET items == heap[node.o][Types[node.t].fields[i].name] IN
        \E j, k \in 1..Len(items) :
            /\ j < k
            /\ name \in DeclaredNames(items[j])
            /\ name \in DeclaredNames(items[k])

\* C11: when two elements of a flagslice field declare the same flag name,
\* building the flag surface succeeds, and once --name v has been parsed
\* the bound field of every such element holds v.
C11_AsStated ==
    \A name \in DeclaredNames(root) :
        SharedInSlice(root, name) =>
            /\ GetFlagSet(heap, root).err = Nil
            /\ /\ pc # "parse"
               /\ GivenValue(name) # <<>>
               /\ NotGivenAgain(name)
               => \A i \in 1..Len(DeclaredFlags(root, 1, 0)) :
                     LET f == DeclaredFlags(root, 1, 0)[i] IN
                     /\ f.name = name
                     /\ ParseString(intSize, f.kind, GivenValue(name)[1]).err = Nil
                     => heap[f.obj][f.field] =
                           ParseString(intSize, f.kind, GivenValue(name)[1]).val

----------------------------------------------------------------------------
(* Stringify: the flags of a surface written back as command-line tokens.  *)

\* fmt.Sprintf("%v", n) for a natural number.
RECURSIVE FormatNat(_)
FormatNat(n) ==
    LET d == CHOOSE c \in Digits : DigitVal(c) = n % 10 IN
    IF n < 10 THEN <<d>> ELSE FormatNat(n \div 10) \o <<d>>

\* fmt.Sprintf("%v", v.Int())
FormatInt(n) == IF n < 0 THEN <<"-">> \o FormatNat(0 - n) ELSE FormatNat(n)

\* n zeros.
Zeros(n) == [i \in 1..n |-> "0"]

\* strconv's %e of the digits: d.ddde+xx, the exponent of two digits at
\* least.
fmtE(digits, dp) ==
    <<digits[1]>>
    \o (IF Len(digits) > 1 THEN <<".">> \o Tail(digits) ELSE <<>>)
    \o <<"e", IF dp - 1 < 0 THEN "-" ELSE "+">>
    \o (LET x == IF dp - 1 < 0 THEN 1 - dp ELSE dp - 1 IN
        IF x < 10 THEN <<"0">> \o FormatNat(x) ELSE FormatNat(x))

\* strconv's %f of the digits, with as many decimals as they need.
fmtF(digits, dp) ==
    (IF dp <= 0 THEN <<"0">>
     ELSE IF dp >= Len(digits) THEN digits \o Zeros(dp - Len(digits))
     ELSE SubSeq(digits, 1, dp))
    \o (IF Len(digits) <= dp THEN <<>>
        ELSE <<".">>
             \o (IF dp < 0 THEN Zeros(0 - dp) ELSE <<>>)
             \o SubSeq(digits, (IF dp < 0 THEN 0 ELSE dp) + 1, Len(digits)))

\* fmt.Sprintf("%v", v.Float()): the shortest decimal that reads back as
\* the float, with an exponent when it is below -4 or 6 and above.
FormatFloat(f) ==
    IF f.special # ""
    THEN CASE f.special = "NaN"  -> <<"N", "a", "N">>
           [] f.special = "+Inf" -> <<"+", "I", "n", "f">>
           [] f.special = "-Inf" -> <<"-", "I", "n", "f">>
    ELSE (IF f.neg THEN <<"-">> ELSE <<>>)
         \o (IF f.digits # <<>> /\ (f.dp - 1 < -4 \/ f.dp - 1 >= 6)
             THEN fmtE(f.digits, f.dp)
             ELSE fmtF(f.digits, f.dp))

\* a < b in the order of their bytes.
RECURSIVE TextLess(_, _)
TextLess(a, b) ==
    IF b = <<>> THEN FALSE
    ELSE IF a = <<>> THEN TRUE
    ELSE IF a[1] # b[1] THEN CharCode(a[1]) < CharCode(b[1])
    ELSE TextLess(Tail(a), Tail(b))

\* The members of a JSON object, texts being the function from its keys to
\* the JSON text of their values: the keys in the order of their bytes.
RECURSIVE JSONMembers(_, _, _)
JSONMembers(short, texts, keys) ==
    IF keys = {} THEN <<>>
    ELSE LET k == CHOOSE k \in keys : \A j \in keys : k = j \/ TextLess(k, j)
         IN  <<JSONQuote(short, k) \o <<":">> \o texts[k]>>
             \o JSONMembers(short, texts, keys \ {k})

JSONObject(short, texts) ==
    <<"{">> \o JSONJoin(JSONMembers(short, texts, DOMAIN texts)) \o <<"}">>

\* json.Marshal of a slice or a map, by its type: null when it is nil.
JSONMarshalValue(short, kind, v) ==
    IF v.nil THEN JSONNull
    ELSE CASE kind = "slice" -> JSONMarshal(short, v.elems)
           [] kind = "[]int" ->
                <<"[">>
                \o JSONJoin([i \in 1..Len(v.elems) |-> FormatInt(v.elems[i])])
                \o <<"]">>
           [] kind = "map" ->
                JSONObject(short, [k \in DOMAIN v.kv |-> JSONQuote(short, v.kv[k])])
           [] kind = "map[string]int" ->
                JSONObject(short, [k \in DOMAIN v.kv |-> FormatInt(v.kv[k])])
           [] kind = "map[int]string" ->
                JSONObject(short, [t \in {FormatInt(k) : k \in DOMAIN v.kv} |->
                    JSONQuote(short, v.kv[CHOOSE k \in DOMAIN v.kv : FormatInt(k) = t])])

\* utils.StringifyValue, by the kind of the value: [err, str].  A
\* time.Duration is of kind Int64 and is written as its nanoseconds; a nil
\* pointer has no element to write.
RECURSIVE StringifyValue(_, _, _)
StringifyValue(short, kind, v) ==
    CASE kind \in PtrKinds ->
            IF v.nil THEN [err |-> <<"Unsupported type">>, str |-> <<>>]
            ELSE StringifyValue(short, Elem(kind), v.elem)
      [] kind = "bool" ->
            [err |-> Nil,
             str |-> IF v THEN <<"t", "r", "u", "e">>
                     ELSE <<"f", "a", "l", "s", "e">>]
      [] kind \in {"int", "int8", "int16", "int32", "int64"} ->
            [err |-> Nil, str |-> FormatInt(v)]
      [] kind = "duration" ->
            [err |-> Nil,
             str |-> IF v.ns = <<>> THEN <<"0">>
                     ELSE (IF v.neg THEN <<"-">> ELSE <<>>) \o v.ns]
      [] kind \in {"uint", "uint8", "uint16", "uint32", "uint64"} ->
            [err |-> Nil, str |-> FormatNat(v)]
      [] kind \in {"float32", "float64"} ->
            [err |-> Nil, str |-> FormatFloat(v)]
      [] kind = "string" -> [err |-> Nil, str |-> v]
      [] kind \in SliceKinds \cup MapKinds ->
            [err |-> Nil, str |-> JSONMarshalValue(short, kind, v)]
      [] OTHER -> [err |-> <<"Unsupported type">>, str |-> <<>>]

\* utils.GetFieldValue(obj, fieldname)
GetFieldValue(short, h, obj, fieldname) ==
    IF obj.o = NilObj THEN [err |-> Nil, str |-> <<>>]
    ELSE StringifyValue(short, FieldKind(obj.t, fieldname), h[obj.o][fieldname])

\* The tokens Stringify writes for one flag: --name and the value of the
\* bound field; a boolean flag is written as --name alone when the field is
\* true and left out when it is false.
StringifyFlag(short, formal, h, name) ==
    LET target == formal[name]
        value  == GetFieldValue(short, h, target.object, target.field).str
    IN  IF target.kind = "bool"
        THEN IF h[target.object.o][target.field] THEN <<<<"-", "-">> \o name>>
             ELSE <<>>
        ELSE <<<<"-", "-">> \o name, value>>

\* FlagSet.Stringify over the flags named: the token lists it can return,
\* one for each order the map of targets is ranged over.
RECURSIVE StringifyFrom(_, _, _, _)
StringifyFrom(short, formal, h, names) ==
    IF names = {} THEN {<<>>}
    ELSE UNION {{StringifyFlag(short, formal, h, n) \o rest :
                    rest \in StringifyFrom(short, formal, h, names \ {n})} :
                n \in names}

\* FlagSet.Stringify
Stringify(short, formal, h) == StringifyFrom(short, formal, h, DOMAIN formal)

\* The surface has the values of h again once toks are parsed into the
\* surface built over a fresh node.
Reproduces(formal, h, toks) ==
    LET p == FlagParse(intSize, GetFlagSet(InitHeap, root).formal, InitHeap, toks) IN
    /\ ~p.panic
    /\ p.err = Nil
    /\ \A name \in DOMAIN formal :
          p.heap[formal[name].object.o][formal[name].field] =
             h[formal[name].object.o][formal[name].field]

\* C12: once a token list has been parsed into the flag surface of the root,
\* parsing what Stringify returns into a fresh surface over a fresh node
\* gives every flag-bound field the value it has, the boolean flags that are
\* false being left out of Stringify's tokens and false after the reparse.
C12_AsStated ==
    pc = "route" /\ app = root =>
        \A toks \in Stringify(shortEscapes, flagset, heap) :
            /\ Reproduces(flagset, heap, toks)
            /\ \A name \in DOMAIN flagset :
                  /\ flagset[name].kind = "bool"
                  /\ ~heap[flagset[name].object.o][flagset[name].field]
                  => \A i \in 1..Len(toks) : toks[i] # <<"-", "-">> \o name

\* C12 on the surfaces that bind no time.Duration field and no pointer
\* field that is nil (a nil pointer has no text: StringifyValue fails on it).
C12_OnOtherSurfaces ==
    /\ pc = "route"
    /\ app = root
    /\ \A name \in DOMAIN flagset :
          /\ flagset[name].kind # "duration"
          /\ flagset[name].kind \in PtrKinds =>
                ~heap[flagset[name].object.o][flagset[name].field].nil
    => \A toks \in Stringify(shortEscapes, flagset, heap) : Reproduces(flagset, heap, toks)

----------------------------------------------------------------------------
(* Malformed directives.                                                   *)

\* A field of the node carries a flag or subcommand tag that does not split
\* at "=" into a directive and its payload.
Malformed(node) ==
    \E i \in 1..Len(Types[node.t].fields) :
        LET tag == Types[node.t].fields[i].tag IN
        /\ tag # <<>>
        /\ Len(Split(tag, "=")) # 2
        /\ Split(tag, "=")[1] \in {FlagDirective, SubcommandDirective}

\* C13: when dispatch reaches a node one of whose fields carries a flag or
\* subcommand tag without an "=" payload, GetFlagSet fails on it and RunCLI
\* returns an error at once; whatever the tokens are, no flag parse, no hook
\* and no handler ever runs on such a node.
C13_MalformedTag ==
    [][/\ pc = "parse" /\ Malformed(app) =>
             /\ GetFlagSet(heap, app).err # Nil
             /\ pc' = "done"
             /\ err' # Nil
             /\ events' = events
             /\ heap' = heap
       /\ \A i \in 1..Len(events') : ~Malformed(events'[i].node)]_vars

\* C13 witness: [badsub, run] descended from the root, whose hook ran, into
\* the node whose field is tagged "subcommand" alone: RunCLI returned the
\* error of GetFlagSet, and neither the hook nor Run of that node ran.
C13_Witness ==
    /\ pc = "done"
    /\ root = Ptr("BadRoot", "bad")
    /\ commandLine = <<t_badsub, t_run>>
    /\ app = Ptr("BadSub", "bad_Subbed")
    /\ Malformed(app)
    /\ err = WithStack(<<"failed to get flagset">>)
    /\ Len(events) = 2
    /\ events[2].ev = "hook"
    /\ \A i \in 1..Len(events) : events[i].node = root
    /\ Calls = <<>>

\* The fields of the node tagged flagstruct or flagslice with more than one
\* "=", by index.
LooseFields(node) ==
    {i \in 1..Len(Types[node.t].fields) :
        /\ Types[node.t].fields[i].tag # <<>>
        /\ Len(Split(Types[node.t].fields[i].tag, "=")) > 2
        /\ Split(Types[node.t].fields[i].tag, "=")[1]
              \in {FlagStructDirective, FlagSliceDirective}}

\* The node or nodes nested in such a field.
NestedNodes(node, i) ==
    LET field == Types[node.t].fields[i] IN
    IF field.kind = "slice"
    THEN {heap[node.o][field.name][j] : j \in 1..Len(heap[node.o][field.name])}
    ELSE {heap[node.o][field.name]}

\* The names of the flags they declare.
NestedNames(node, i) == UNION {DeclaredNames(n) : n \in NestedNodes(node, i)}

\* The surface of the current node is built and has parsed its tokens.
SurfaceBuilt == pc \in {"route", "execute"} /\ app.o # NilObj

\* C14: a flagstruct or flagslice directive with more than one "=" never
\* produces an error and is treated as unscoped: the flags of its nested
\* nodes are in the flag surface of the node, for every command.
C14_AsStated ==
    \A i \in LooseFields(app) :
        /\ GetFlagSet(heap, app).err = Nil
        /\ SurfaceBuilt => NestedNames(app, i) \subseteq DOMAIN flagset

\* What the code does with such a directive: it never produces an error; the
\* flags of the elements of a flagslice field so tagged are in the flag
\* surface of the node for every command, and the node nested in a
\* flagstruct field so tagged gives the surface no flag: a token naming one
\* of its flags makes RunCLI return "flag provided but not defined" without
\* calling a handler.
C14_LooseDirectives ==
    /\ \A i \in LooseFields(app) :
          /\ GetFlagSet(heap, app).err = Nil
          /\ SurfaceBuilt =>
                IF Types[app.t].fields[i].kind = "slice"
                THEN /\ NestedNames(app, i) \subseteq DOMAIN flagset
                     /\ \A name \in NestedNames(app, i) :
                           flagset[name].object \in NestedNodes(app, i)
                ELSE \A name \in DOMAIN flagset :
                        flagset[name].object \notin NestedNodes(app, i)
    /\ \A i \in LooseFields(root) :
          /\ Terminated
          /\ Types[root.t].fields[i].kind # "slice"
          /\ FirstFlagAt(1)
          /\ FlagTokenName(commandLine[1]) \in NestedNames(root, i)
          /\ FlagTokenName(commandLine[1]) \notin DOMAIN GetFlagSet(heap, root).formal
          => /\ pc = "done"
             /\ err = WithStack(<<"flag provided but not defined">>)
             /\ Calls = <<>>

\* On the node with a field tagged flagstruct=a=b and a field tagged
\* flagslice=a=b, [--intflag2, 1, run] set Value of the slice element and
\* called Run, with the flag x of the flagstruct in no surface.
C14_LooseReached ==
    /\ pc = "done"
    /\ root = Ptr("Loose", "loose")
    /\ commandLine = <<t_intflag2, t_1, t_run>>
    /\ Cardinality(LooseFields(root)) = 2
    /\ FlagTokenName(t_intflag2) \in DOMAIN flagset
    /\ FlagTokenName(t_x) \notin DOMAIN flagset
    /\ \E i \in LooseFields(root) : FlagTokenName(t_x) \in NestedNames(root, i)
    /\ heap.loose_Item.Value = 1
    /\ Len(Calls) = 1
    /\ Calls[1].name = m_Run
    /\ err = Nil

----------------------------------------------------------------------------
(* Subcommand resolution.                                                  *)

\* The fields of the node tagged subcommand=name, by index.
SubcommandFields(node) ==
    {i \in 1..Len(Types[node.t].fields) :
        /\ Len(Split(Types[node.t].fields[i].tag, "=")) = 2
        /\ Split(Types[node.t].fields[i].tag, "=")[1] = SubcommandDirective}

\* The name such a field declares.
SubcommandName(node, i) ==
    parseSubcommandDirective(Split(Types[node.t].fields[i].tag, "=")[2])

\* The root has parsed its flags, none given, and resolves the first token.
AtResolution ==
    /\ pc = "route"
    /\ app = root
    /\ arguments = commandLine
    /\ commandLine # <<>>

\* C15: subcommand resolution compares the token with the declared name of
\* each subcommand directive after normalizing both: a token equal to the
\* declared name up to case, hyphens and underscores resolves to the child
\* node held by that field.
C15_AsStated ==
    AtResolution =>
        \A i \in SubcommandFields(root) :
            normalizeCommand(commandLine[1]) = normalizeCommand(SubcommandName(root, i))
            => /\ subCommand(heap, root, commandLine[1]).err = Nil
               /\ subCommand(heap, root, commandLine[1]).found
               /\ subCommand(heap, root, commandLine[1]).subapp =
                     heap[root.o][Types[root.t].fields[i].name]

\* The first token is the declared name of a subcommand field of the root
\* that holds a nil pointer.
NilSubcommand ==
    /\ commandLine # <<>>
    /\ root.o # NilObj
    /\ \E i \in SubcommandFields(root) :
          /\ commandLine[1] = SubcommandName(root, i)
          /\ heap[root.o][Types[root.t].fields[i].name].o = NilObj

\* C16: when a token matches a subcommand directive whose field holds a nil
\* pointer, subcommand resolution returns an error, and RunCLI returns an
\* error without descending into the child and without invoking a handler.
C16_AsStated ==
    /\ AtResolution /\ NilSubcommand =>
          subCommand(heap, root, commandLine[1]).err # Nil
    /\ NilSubcommand =>
          /\ app = root
          /\ Calls = <<>>
          /\ pc # "panic"
          /\ Terminated => err # Nil

----------------------------------------------------------------------------
(* Command lookup and normalization.                                       *)

\* A name with '-' and '_' removed and its letters lowercased.
Normal(name) == ToLower(RemoveChar(RemoveChar(name, "-"), "_"))

\* The two tokens locate the same command of the node, or none, and select
\* the same command-scoped flagstructs.
SameLookup(node, a, b) ==
    /\ HasCommand(node, a) = HasCommand(node, b)
    /\ HasCommand(node, a) => getMethod(node, a) = getMethod(node, b)
    /\ findCommand(node, <<a>>) # <<>> <=> findCommand(node, <<b>>) # <<>>
    /\ setupNamedFlagStructFrom(heap, node, a, 1, <<>>) =
          setupNamedFlagStructFrom(heap, node, b, 1, <<>>)

\* C17: where RunCLI looks a command up, any two tokens of the command line
\* that are equal after removing '-' and '_' and lowercasing locate the same
\* command of the current node and select the same command-scoped
\* flagstructs, and normalizing a normalized name changes nothing: it gives
\* the same name and the same lookup.
C17_LookupNormalized ==
    pc = "route" =>
        \A i \in 1..Len(commandLine) :
            /\ \A j \in (i + 1)..Len(commandLine) :
                  Normal(commandLine[i]) = Normal(commandLine[j])
                  => SameLookup(app, commandLine[i], commandLine[j])
            /\ normalizeCommand(normalizeCommand(commandLine[i])) =
                  normalizeCommand(commandLine[i])
            /\ SameLookup(app, commandLine[i], normalizeCommand(commandLine[i]))

\* C17 witness: [CMD-1, --b2, 1, cmd1] located Cmd1 by the token CMD-1 and
\* took the flagstruct scoped to cmd1 into the surface: B2 was set and
\* Cmd1("cmd1") called.  CMD-1 and cmd1 differ and normalize to one name.
C17_Witness ==
    /\ pc = "done"
    /\ root = Ptr("Application3", "app3")
    /\ commandLine = <<t_CMD_1, t_b2, t_1, t_cmd1>>
    /\ cmd = t_CMD_1
    /\ t_CMD_1 # t_cmd1
    /\ Normal(t_CMD_1) = Normal(t_cmd1)
    /\ HasCommand(app, t_CMD_1)
    /\ getMethod(app, t_CMD_1).name = m_Cmd1
    /\ DOMAIN setupNamedFlagStructFrom(heap, app, t_CMD_1, 1, <<>>).targets # {}
    /\ heap.app3_B.B2 = t_1
    /\ Len(Calls) = 1
    /\ Calls[1].name = m_Cmd1
    /\ Calls[1].in = <<t_cmd1>>
    /\ err = Nil

----------------------------------------------------------------------------
(* The frame of flag parsing.                                              *)

\* A token of toks is written as a flag and names the flag.
Named(name, toks) ==
    \E k \in 1..Len(toks) :
        /\ toks[k] # <<>>
        /\ toks[k][1] = "-"
        /\ FlagTokenName(toks[k]) = name

\* The tokens a parse of args into the surface consumes: the flags in front.
FlagsInFront(formal, h, args) ==
    SubSeq(args, 1, Len(args) - Len(FlagParse(intSize, formal, h, args).args))

\* The flag surface of the root.
RootSurface == GetFlagSet(InitHeap, root).formal

\* What the root's parse leaves of the command line: sub and what follows.
FromSub == FlagParse(intSize, RootSurface, InitHeap, commandLine).args

\* flagsA: the flags in front of the command line.
FlagsA == FlagsInFront(RootSurface, InitHeap, commandLine)

\* The command line has the form [flagsA..., sub, ...]: the root's surface
\* builds, its parse passes and the next token names a subcommand of the
\* root that holds a node.
HasSub ==
    /\ GetFlagSet(InitHeap, root).err = Nil
    /\ ~FlagParse(intSize, RootSurface, InitHeap, commandLine).panic
    /\ FlagParse(intSize, RootSurface, InitHeap, commandLine).err = Nil
    /\ FromSub # <<>>
    /\ subCommand(InitHeap, root, FromSub[1]).err = Nil
    /\ subCommand(InitHeap, root, FromSub[1]).found
    /\ subCommand(InitHeap, root, FromSub[1]).subapp.o # NilObj

\* The child sub names, and its flag surface.
Child == subCommand(InitHeap, root, FromSub[1]).subapp

ChildSurface == GetFlagSet(InitHeap, Child).formal

\* flagsB: the flags in front of what follows sub.
FlagsB == FlagsInFront(ChildSurface, InitHeap, Tail(FromSub))

\* What the child's parse leaves: cmd and what follows.
FromCmd == FlagParse(intSize, ChildSurface, InitHeap, Tail(FromSub)).args

\* The field the target stands for differs in h from what it was in g.
Differs(target, h, g) ==
    /\ target.object.o # NilObj
    /\ h[target.object.o][target.field] # g[target.object.o][target.field]

\* C18: for tokens [flagsA..., sub, flagsB..., cmd, ...] the flag fields of
\* the root differ from what they were before RunCLI only when flagsA names
\* them, and those of the child only when flagsB names them.
C18_AsStated ==
    HasSub =>
        /\ \A name \in DOMAIN RootSurface :
              Differs(RootSurface[name], heap, InitHeap) => Named(name, FlagsA)
        /\ \A name \in DOMAIN ChildSurface :
              Differs(ChildSurface[name], heap, InitHeap) => Named(name, FlagsB)

\* The surface the step parses into, and the flags it consumes.
StepSurface == IF pc = "parse" THEN GetFlagSet(heap, app).formal ELSE flagset

StepFlags == FlagsInFront(StepSurface, heap, arguments)

\* A step changes a flag-bound field only by parsing, into the surface of
\* the current level, a token that names the flag bound to it.
FrameOfStep(formal) ==
    \A name \in DOMAIN formal :
        Differs(formal[name], heap', heap) =>
            /\ pc \in {"parse", "execute"}
            /\ name \in DOMAIN StepSurface
            /\ StepSurface[name] = formal[name]
            /\ Named(name, StepFlags)

\* C18, amended: a flag parsed at one dispatch level writes only fields
\* bound in that level's flag surface, and only those its tokens name.  For
\* tokens [flagsA..., sub, flagsB..., cmd, ...] the flag fields of the root
\* differ from what they were before RunCLI only when flagsA names them, and
\* those of the child only when flagsB names them or, the command being
\* located on the child, a flag token from cmd on does: executeCommand
\* parses the flags again after the command token.
C18_FlagFrame ==
    [][/\ FrameOfStep(StepSurface)
       /\ FrameOfStep(RootSurface)
       /\ HasSub =>
             /\ FrameOfStep(ChildSurface)
             /\ \A name \in DOMAIN RootSurface :
                   Differs(RootSurface[name], heap', InitHeap)
                   => Named(name, FlagsA)
             /\ \A name \in DOMAIN ChildSurface :
                   Differs(ChildSurface[name], heap', InitHeap)
                   => \/ Named(name, FlagsB)
                      \/ /\ app = Child
                         /\ pc = "execute"
                         /\ Named(name, FromCmd)]_vars

\* C18 witness: [--intflag, 10, subapp, opthree] set IntFlag of the root to
\* 10, left SubIntFlag of the child at 0 and called OpThree on the child.
C18_Witness ==
    /\ pc = "done"
    /\ root = Ptr("Application", "app")
    /\ commandLine = <<t_intflag, t_10, t_subapp, t_opthree>>
    /\ HasSub
    /\ FlagsA = <<t_intflag, t_10>>
    /\ FlagsB = <<>>
    /\ app = Child
    /\ heap.app.IntFlag = 10
    /\ heap.app_SubApp.SubIntFlag = 0
    /\ heap.app_SubApp.count = 1
    /\ Len(Calls) = 1
    /\ err = Nil

----------------------------------------------------------------------------
(* Coercion.                                                               *)

\* The integer kinds other than reflect.Int64, signed and unsigned.
OtherIntKinds ==
    {"int", "int8", "int16", "int32", "uint", "uint8", "uint16", "uint32",
     "uint64"}

\* The tokens of the command lines that are written as base-10 integers, an
\* optional sign and then digits only, with the value of the integer each
\* denotes: the integer, or beyond 32 bits its sign and numeral.
Numerals ==
    {t_0, t_1, t_7, t_10, t_30, t_128, t_300, t_minus_1, t_40000, t_70000,
     t_3000000000, t_two32, t_two63, t_two64}

NumberOf(token) ==
    CASE token = t_0 -> 0 [] token = t_1 -> 1 [] token = t_7 -> 7
      [] token = t_10 -> 10 [] token = t_30 -> 30 [] token = t_128 -> 128
      [] token = t_300 -> 300 [] token = t_minus_1 -> 0 - 1
      [] token = t_40000 -> 40000 [] token = t_70000 -> 70000
      [] token = t_3000000000 ->
            [neg |-> FALSE, digits |-> <<"3", "0", "0", "0", "0", "0", "0",
                                         "0", "0", "0">>]
      [] token = t_two32 ->
            [neg |-> FALSE, digits |-> <<"4", "2", "9", "4", "9", "6", "7",
                                         "2", "9", "6">>]
      [] token = t_two63 ->
            [neg |-> FALSE,
             digits |-> <<"9", "2", "2", "3", "3", "7", "2", "0", "3", "6",
                          "8", "5", "4", "7", "7", "5", "8", "0", "8">>]

\* The integer types of a fixed size whose range holds the integer the
\* token denotes: -1<<(w-1) to 1<<(w-1) - 1 for intw, 0 to 1<<w - 1 for
\* uintw.
HoldingKinds(token) ==
    CASE token \in {t_0, t_1, t_7, t_10, t_30} ->
            {"int8", "int16", "int32", "int64",
             "uint8", "uint16", "uint32", "uint64"}
      [] token = t_128 ->
            {"int16", "int32", "int64", "uint8", "uint16", "uint32", "uint64"}
      [] token = t_300 ->
            {"int16", "int32", "int64", "uint16", "uint32", "uint64"}
      [] token = t_minus_1 -> {"int8", "int16", "int32", "int64"}
      [] token = t_40000 -> {"int32", "int64", "uint16", "uint32", "uint64"}
      [] token = t_70000 -> {"int32", "int64", "uint32", "uint64"}
      [] token = t_3000000000 -> {"int64", "uint32", "uint64"}
      [] token = t_two32 -> {"int64", "uint64"}
      [] token = t_two63 -> {"uint64"}
      [] token = t_two64 -> {}

\* The token is a base-10 integer of 64 bits, signed.
IsInt64Text(token) == token \in Numerals /\ "int64" \in HoldingKinds(token)

\* The tokens of the command lines that are duration strings, with the
\* duration of each.
DurationTexts == {t_0, t_2s, t_4h, t_1_5ms}

DurationOf(token) ==
    CASE token = t_0 -> [neg |-> FALSE, ns |-> <<>>]
      [] token = t_2s ->
            [neg |-> FALSE,
             ns |-> <<"2", "0", "0", "0", "0", "0", "0", "0", "0", "0">>]
      [] token = t_4h ->
            [neg |-> FALSE,
             ns |-> <<"1", "4", "4", "0", "0", "0", "0", "0", "0", "0", "0",
                      "0", "0", "0">>]
      [] token = t_1_5ms ->
            [neg |-> FALSE, ns |-> <<"1", "5", "0", "0", "0", "0", "0">>]

\* What coercing the token to a 64-bit signed integer type must give: the
\* integer when the token is one, else the duration when it is a duration
\* string, else an error; int64 and time.Duration are coerced alike.
Int64Coercion(tok) ==
    LET p == ParseString(intSize, "int64", tok) IN
    /\ IsInt64Text(tok) =>
          p.err = Nil /\ p.type = "int64" /\ p.val = NumberOf(tok)
    /\ ~IsInt64Text(tok) /\ tok \in DurationTexts =>
          p.err = Nil /\ p.type = "duration" /\ p.val = DurationOf(tok)
    /\ ~IsInt64Text(tok) /\ tok \notin DurationTexts => p.err # Nil
    /\ ParseString(intSize, "duration", tok) = p

\* The command line is a command of one parameter and one argument token.
OneArgument ==
    /\ Len(commandLine) = 2
    /\ commandLine[2][1] # "-"
    /\ root.o # NilObj
    /\ subCommand(InitHeap, root, commandLine[1]).err = Nil
    /\ ~subCommand(InitHeap, root, commandLine[1]).found
    /\ GetFlagSet(InitHeap, root).err = Nil
    /\ commandLine[1][1] # "-"
    /\ HasCommand(root, commandLine[1])
    /\ Len(getMethod(root, commandLine[1]).in) = 1

\* RunCLI returned the dispatch error without a call.
CoercionFailed ==
    /\ pc = "done"
    /\ err = <<"failed to run application">>
    /\ Calls = <<>>

\* The handler was called, once, with the value.
CalledWith(v) ==
    /\ pc = "done"
    /\ Len(Calls) = 1
    /\ Calls[1].in = <<v>>

\* C19: coercing a token to a 64-bit signed integer type gives the base-10
\* integer when the token is one, the duration when it is not an integer
\* but a duration string, and an error when it is neither; no other integer
\* kind, signed or unsigned, accepts a token that is not an integer, a
\* duration string included.  So a handler with an int64 parameter is
\* called with the integer, one with a time.Duration parameter with the
\* duration, and one with a parameter of another integer kind is not called
\* on a duration string.
C19_Int64OrDuration ==
    /\ \A k \in 1..Len(commandLine) :
          /\ Int64Coercion(commandLine[k])
          /\ \A kind \in OtherIntKinds :
                commandLine[k] \notin Numerals
                => ParseString(intSize, kind, commandLine[k]).err # Nil
    /\ Terminated /\ OneArgument =>
          LET kind == getMethod(root, commandLine[1]).in[1]
              tok  == commandLine[2]
          IN  /\ kind \in OtherIntKinds /\ tok \notin Numerals
                 => CoercionFailed
              /\ kind \in {"int64", "duration"}
                 /\ ~IsInt64Text(tok) /\ tok \notin DurationTexts
                 => CoercionFailed
              /\ kind = "int64" /\ IsInt64Text(tok)
                 => CalledWith(NumberOf(tok))
              /\ kind = "duration" /\ ~IsInt64Text(tok)
                 /\ tok \in DurationTexts
                 => CalledWith(DurationOf(tok))

\* C19 witness: [wait, 1.5ms], which is not an integer, called Wait with
\* the duration of 1500000 ns; the token 0 of the vocabulary is both an
\* integer and a duration string and is coerced to the integer.
C19_Witness ==
    /\ pc = "done"
    /\ root = Ptr("DurationRunner", "durt")
    /\ commandLine = <<t_wait, t_1_5ms>>
    /\ OneArgument
    /\ t_1_5ms \notin Numerals
    /\ ParseInt(t_1_5ms).err # Nil
    /\ ParseDuration(t_1_5ms).val =
          Duration(FALSE, <<"1", "5", "0", "0", "0", "0", "0">>)
    /\ CalledWith(ParseDuration(t_1_5ms).val)
    /\ ParseInt(t_0).err = Nil
    /\ ParseDuration(t_0).err = Nil
    /\ ParseString(intSize, "int64", t_0).type = "int64"
    /\ err = Nil

\* [natural, 2s], Natural taking a uint, ended on the dispatch error with no
\* call.
C19_UnsignedRefuses ==
    /\ root = Ptr("IntWidths", "widths")
    /\ commandLine = <<t_natural, t_2s>>
    /\ OneArgument
    /\ ParseDuration(t_2s).err = Nil
    /\ CoercionFailed

\* The tokens bound to the parameters of the located command, and whether
\* one of them does not parse to its parameter's kind.
Bound == BindArgs(shortEscapes, Handler, Reparsed.args)

SomeArgumentFails ==
    /\ Bound.err = Nil
    /\ \E k \in 1..Len(Bound.args) :
          ParseString(intSize, Handler.in[k], Bound.args[k]).err # Nil

\* Setting a field of the surface from a token of the command line either
\* passes or leaves every field as it was.
FailedSetKeepsField(formal) ==
    \A name \in DOMAIN formal : \A k \in 1..Len(commandLine) :
        LET r == TargetSet(intSize, heap, formal[name], commandLine[k]) IN
        r.err # Nil => r.heap = heap

\* The first flag of the command line is given a value that does not parse
\* to the kind of its field.
FirstFlagFails(name) ==
    /\ FirstFlagAt(1)
    /\ name = FlagTokenName(commandLine[1])
    /\ name \in DOMAIN RootSurface
    /\ RootSurface[name].object.o # NilObj
    /\ RootSurface[name].kind # "bool"
    /\ GivenValue(name) # <<>>
    /\ ParseString(intSize, RootSurface[name].kind, GivenValue(name)[1]).err # Nil

\* C20: when an argument token does not coerce to the type of its
\* parameter, the handler is not invoked, the usage of the command is
\* printed and RunCLI returns a dispatch error; when setting a flag-bound
\* field from a token fails, the field keeps the value it had: RunCLI
\* returns the error of the parse with the field as it was.
C20_CoercionFailure ==
    [][/\ AtBinding /\ SomeArgumentFails =>
             /\ ~CalledNow
             /\ pc' = "done"
             /\ err' = <<"failed to run application">>
             /\ UsageOutput' =
                   Append(UsageOutput,
                          [kind |-> "PrintUsageWithCommand",
                           node |-> app, cmd |-> cmd])
             /\ heap' = executeHook(Reparsed.heap, app).heap
       /\ FailedSetKeepsField(StepSurface)
       /\ \A name \in DOMAIN RootSurface :
             pc = "parse" /\ app = root /\ FirstFlagFails(name) =>
                /\ pc' = "done"
                /\ err' = WithStack(<<"invalid value for flag">>)
                /\ ~Differs(RootSurface[name], heap', heap)
                /\ heap' = heap]_vars

\* C20 witness: [small, 2s]: 2s does not coerce to the int8 parameter of
\* Small, which was not called; the usage of the command was printed and
\* RunCLI returned the dispatch error.
C20_Witness ==
    /\ pc = "done"
    /\ root = Ptr("DurationRunner", "durt")
    /\ commandLine = <<t_small, t_2s>>
    /\ getMethod(root, t_small).in = <<"int8">>
    /\ ParseString(intSize, "int8", t_2s).err # Nil
    /\ Calls = <<>>
    /\ err = <<"failed to run application">>
    /\ UsageOutput = <<[kind |-> "PrintUsageWithCommand",
                        node |-> root, cmd |-> t_small]>>

----------------------------------------------------------------------------
(* C21: termination of the dispatch loop.                                  *)

\* The loop of RunCLI is at its head or at the subcommand test.
InLoop == pc \in {"parse", "route"}

\* The tokens consumed by descending, while the loop runs: one for each
\* iteration before the current one.
Descents == Len(cumulativeCommands)

\* The loop is in iteration Descents + 1, and the tokens consumed and the
\* tokens left are never more than the tokens given.
IterationBound ==
    /\ InLoop => Descents + Len(arguments) <= Len(commandLine)
    /\ Len(cumulativeCommands) <= Len(commandLine)

\* A step of the loop: it ends the run, or goes on within the iteration, or
\* starts the next iteration on the child with exactly one token consumed.
LoopStep ==
    /\ pc = "parse" => pc' \in {"route", "done", "panic"}
    /\ pc = "route" => pc' \in {"parse", "execute", "done", "panic"}
    /\ pc = "execute" => pc' \in {"done", "panic"}
    /\ pc = "route" /\ pc' = "parse"
       => /\ arguments # <<>>
          /\ arguments' = Tail(arguments)
          /\ cumulativeCommands' = Append(cumulativeCommands, arguments[1])
          /\ app' # app

\* What is left to do: the tokens left, then the stages left of the
\* iteration.  A run cannot be longer than Measure at its start.
StageRank ==
    CASE pc = "parse" -> 3 [] pc = "route" -> 2 [] pc = "execute" -> 1
      [] OTHER -> 0

Measure == 4 * Len(arguments) + StageRank

\* RunCLI lines 87-101: with the flags parsed, the loop takes exactly one
\* of its two ways, the descent or the command lookup.
DescentTaken ==
    /\ arguments # <<>>
    /\ LET s == subCommand(heap, app, arguments[1]) IN s.err # Nil \/ s.found

LookupTaken ==
    IF arguments = <<>> THEN TRUE
    ELSE LET s == subCommand(heap, app, arguments[1]) IN s.err = Nil /\ ~s.found

NoStageWaits ==
    /\ pc \in {"parse", "route", "execute", "done", "panic"}
    /\ pc = "route" => (DescentTaken /\ ~LookupTaken) \/ (LookupTaken /\ ~DescentTaken)

\* C21: RunCLI terminates for every token list: each iteration of the loop
\* ends the run or consumes exactly one token by descending into a
\* subcommand, so there are at most Len(commandLine) + 1 iterations; no stage
\* waits for another, and every step brings the end of the run closer.
C21_Termination ==
    /\ [](IterationBound /\ NoStageWaits)
    /\ [][LoopStep /\ Measure' < Measure]_vars

\* Three iterations for three tokens: two descents, then the command.
C21_Witness ==
    /\ commandLine = <<t_subapp, t_subsubapp, t_opdeep>>
    /\ pc = "done"
    /\ cumulativeCommands = commandLine
    /\ arguments = <<>>
    /\ Len(Calls) = 1
    /\ Calls[1].name = m_OpDeep

----------------------------------------------------------------------------
(* C22: the order of the PostFlagParse hooks.                              *)

\* child is the value of a subcommand field of node.
IsChild(node, child) ==
    /\ node.o # NilObj
    /\ \E i \in SubcommandFields(node) :
          heap[node.o][Types[node.t].fields[i].name] = child

\* The flag parses of the node among the first j events.
ParsesBefore(node, j) ==
    Cardinality({k \in 1..j : events[k].ev = "parse" /\ events[k].node = node})

\* The hook recorded as event j ran right after a parse of the flags of its
\* node, for the first time on that node, and what follows it is the parse
\* of a child of the node (the node's flags were parsed once, by the loop)
\* or the handler of the node (its flags were parsed twice: by the loop and,
\* the command located, by executeCommand).
HookInOrder(j) ==
    /\ Types[events[j].node.t].hook
    /\ j > 1
    /\ events[j - 1].ev = "parse"
    /\ events[j - 1].node = events[j].node
    /\ \A k \in 1..(j - 1) :
          events[k].ev = "hook" => events[k].node # events[j].node
    /\ j < Len(events) =>
          \/ /\ events[j + 1].ev = "parse"
             /\ IsChild(events[j].node, events[j + 1].node)
             /\ ParsesBefore(events[j].node, j) = 1
          \/ /\ events[j + 1].ev = "call"
             /\ events[j + 1].node = events[j].node
             /\ ParsesBefore(events[j].node, j) = 2

\* No node with a hook is left, for a child or for its handler, before its
\* hook ran.
HookNotSkipped(j) ==
    /\ events[j].ev = "call" /\ Types[events[j].node.t].hook
       => j > 1 /\ events[j - 1].ev = "hook"
                /\ events[j - 1].node = events[j].node
    /\ events[j].ev = "parse" /\ j > 1 /\ events[j - 1].node # events[j].node
       => /\ events[j - 1].ev # "call"
          /\ Types[events[j - 1].node.t].hook => events[j - 1].ev = "hook"

\* The hook of Application records whether IntFlag is 10 when it runs: it
\* has seen every flag parsed for the node.
HookSawFlags ==
    /\ root = Ptr("Application", "app")
    /\ \E j \in 1..Len(events) : events[j].ev = "hook" /\ events[j].node = root
    => heap["app"].postFlagHooked = (heap["app"].IntFlag = 10)

\* C22: the PostFlagParse hooks run in root-to-leaf order, once per node on
\* the resolved path: an ancestor's hook after the flags of the ancestor
\* were parsed and before the descent into its child, the terminal node's
\* hook after the tokens following the command were parsed again and before
\* the handler is invoked.
C22_HookOrder ==
    /\ events # <<>> => events[1].node = root
    /\ \A j \in 1..Len(events) :
          /\ events[j].ev = "hook" => HookInOrder(j)
          /\ HookNotSkipped(j)
    /\ HookSawFlags

\* [sub, run] on a root and a child that both have a hook.
C22_Witness ==
    /\ commandLine = <<t_sub, t_run>>
    /\ root = Ptr("HookRoot", "hooked")
    /\ pc = "done"
    /\ err = Nil
    /\ [i \in 1..Len(events) |-> <<events[i].ev, events[i].node.o>>]
          = << <<"parse", "hooked">>, <<"hook", "hooked">>,
               <<"parse", "hooked_Sub">>, <<"parse", "hooked_Sub">>,
               <<"hook", "hooked_Sub">>, <<"call", "hooked_Sub">> >>

----------------------------------------------------------------------------
(* C23: subcommands are resolved before commands are looked up.            *)

\* The first remaining token names a subcommand of the current node.
NamesSubcommand ==
    /\ arguments # <<>>
    /\ subCommand(heap, app, arguments[1]).err = Nil
    /\ subCommand(heap, app, arguments[1]).found

\* The step is the command lookup of the current level.
LookupStep ==
    /\ pc = "route"
    /\ \/ pc' = "execute"
       \/ UsageOutput' # UsageOutput
       \/ err' = <<"failed to setup flags">>

\* The step leaves the current level for the child the token names, or
\* ends the run on the hook of the node; no command is looked up.
DescentStep ==
    /\ pc = "route"
    /\ cmd' = cmd
    /\ UsageOutput' = UsageOutput
    /\ CallsOf(events') = Calls
    /\ \/ /\ pc' = "parse"
          /\ app' = subCommand(heap, app, arguments[1]).subapp
          /\ arguments' = Tail(arguments)
       \/ /\ pc' \in {"done", "panic"}
          /\ Types[app.t].hook
          /\ UNCHANGED <<app, arguments, cumulativeCommands>>

\* C23: at each level the first remaining token is tested against the
\* subcommands of the node before any command is looked up: a token that
\* names a subcommand makes the dispatch descend, even when the node has a
\* command of that name, and a command is looked up only at the level whose
\* first token names no subcommand.
C23_SubcommandFirst ==
    [][/\ pc = "route" /\ NamesSubcommand => DescentStep /\ ~LookupStep
       /\ LookupStep => ~NamesSubcommand]_vars

\* [sub, run] on a root that has the subcommand sub and the command Sub:
\* Run of the child is called, Sub of the root is not.
C23_Witness ==
    /\ commandLine = <<t_sub, t_run>>
    /\ root = Ptr("HookRoot", "hooked")
    /\ HasCommand(root, t_sub)
    /\ pc = "done"
    /\ Len(Calls) = 1
    /\ Calls[1].node = Ptr("HookLeaf", "hooked_Sub")
    /\ Calls[1].name = m_Run

\* ---------------------------------------------------------------------------
\* C24: the order of the candidates for the command
\* ---------------------------------------------------------------------------

\* The lookup stage: the first remaining token, if any, names no subcommand.
AtLookup ==
    /\ pc = "route"
    /\ IF Len(arguments) = 0 THEN TRUE
       ELSE /\ subCommand(heap, app, arguments[1]).err = Nil
            /\ ~subCommand(heap, app, arguments[1]).found

\* The first remaining token names a command of the node.
FirstNamesCommand == Len(arguments) > 0 /\ HasCommand(app, arguments[1])

\* The candidate the lookup is to choose: the first remaining token, then the
\* subcommand token consumed last, then CommanderDefault; none is the empty
\* name.
CandidateDue ==
    IF FirstNamesCommand THEN arguments[1]
    ELSE IF NamedAfterSubcommand
    THEN cumulativeCommands[Len(cumulativeCommands)]
    ELSE IF HasCommand(app, DefaultCommand) THEN DefaultCommand
    ELSE <<>>

\* The lookup chose the candidate due: no candidate ends the run with an
\* error and the usage printed, and a located command is the candidate due.
ChoseDue ==
    /\ CandidateDue = <<>>
          => pc' = "done" /\ err' # Nil /\ Len(UsageOutput') = Len(UsageOutput) + 1
    /\ pc' = "execute" => CandidateDue # <<>> /\ cmd' = CandidateDue
    /\ pc' = "execute" /\ ~FirstNamesCommand => arguments' = arguments

\* The command named by the subcommand token consumed last was located with
\* tokens remaining, the first of which names no command of the node.
LocatedByPrevious ==
    /\ pc = "execute"
    /\ Len(cumulativeCommands) >= 2
    /\ cmd = cumulativeCommands[Len(cumulativeCommands) - 1]
    /\ Len(arguments) > 0
    /\ arguments[1] = cumulativeCommands[Len(cumulativeCommands)]
    /\ ~HasCommand(app, arguments[1])

\* That command is called with the tokens left by the reparse, which are all
\* the remaining tokens when the first of them is not written as a flag.
PreviousCalled ==
    /\ LocatedByPrevious /\ arguments[1][1] # "-" /\ ~Reparsed.panic
          => Reparsed.err = Nil /\ Reparsed.args = arguments
    /\ LocatedByPrevious /\ AtBinding /\ Accepts(Handler, Reparsed.args)
          => /\ CalledNow
             /\ events'[Len(events')].node = app
             /\ events'[Len(events')].name = Handler.name
             /\ events'[Len(events')].in = ExpectedIn(Handler, Reparsed.args)

\* C24: the lookup tries the first remaining token, then the subcommand token
\* consumed last, then CommanderDefault.  At a node reached through the
\* subcommand token T whose first remaining token names no command, a command
\* named T is located with no token stripped, also when the node has
\* CommanderDefault, and is called with all the remaining tokens.
C24_CandidateOrder ==
    [][/\ AtLookup => ChoseDue
       /\ AtLookup /\ ~FirstNamesCommand /\ NamedAfterSubcommand
             /\ pc' = "execute"
             => cmd' = cumulativeCommands[Len(cumulativeCommands)]
       /\ PreviousCalled]_vars

\* C24 witness: [subapp, test] called SubApplication.SubApp("test"), and
\* RunCLI returned its error.
C24_Witness ==
    /\ pc = "done"
    /\ commandLine = <<t_subapp, t_test>>
    /\ root = Ptr("Application", "app")
    /\ cmd = t_subapp
    /\ Len(Calls) = 1
    /\ Calls[1].node = Ptr("SubApplication", "app_SubApp")
    /\ Calls[1].name = m_SubApp
    /\ Calls[1].in = <<t_test>>
    /\ err = errTest

\* [sub, y] on a node with both Sub and CommanderDefault called Sub("y").
C24_PreferredToDefault ==
    /\ pc = "done"
    /\ commandLine = <<t_sub, t_y>>
    /\ root = Ptr("DefApp", "def")
    /\ HasCommand(app, DefaultCommand)
    /\ Len(Calls) = 1
    /\ Calls[1].name = m_Sub
    /\ Calls[1].in = <<t_y>>

\* ---------------------------------------------------------------------------
\* C25: flags after the command token
\* ---------------------------------------------------------------------------

\* The tokens written as flags are all --intflag=10 or --intflag=11.
OnlyIntFlags(args) ==
    \A i \in 1..Len(args) :
        args[i][1] = "-" => args[i] \in {t_intflag_10, t_intflag_11}

\* The value IntFlag is to have after the flags that lead the tokens, the
\* last of them winning; cur when none leads.
RECURSIVE LastIntFlag(_, _)
LastIntFlag(args, cur) ==
    IF args = <<>> THEN cur
    ELSE IF args[1] = t_intflag_10 THEN LastIntFlag(Tail(args), 10)
    ELSE IF args[1] = t_intflag_11 THEN LastIntFlag(Tail(args), 11)
    ELSE cur

\* The tokens from the first positional argument on.
RECURSIVE AfterIntFlags(_)
AfterIntFlags(args) ==
    IF args = <<>> THEN args
    ELSE IF args[1] \in {t_intflag_10, t_intflag_11}
    THEN AfterIntFlags(Tail(args))
    ELSE args

\* s is the end of t.
IsSuffixOf(s, t) ==
    /\ Len(s) <= Len(t)
    /\ s = SubSeq(t, Len(t) - Len(s) + 1, Len(t))

\* The execute step of the Application fixture, whose hook records whether
\* IntFlag is 10: the flags that lead the tokens left after the command
\* token are stored, the last occurrence winning; the hook sees that value;
\* the handler is bound to the tokens after those flags.
IntFlagsAfterCommand ==
    /\ pc = "execute"
    /\ app = Ptr("Application", "app")
    /\ OnlyIntFlags(arguments)
    => LET v    == LastIntFlag(arguments, heap["app"].IntFlag)
           rest == AfterIntFlags(arguments)
       IN  /\ heap'["app"].IntFlag = v
           /\ heap'["app"].postFlagHooked = (v = 10)
           /\ Reparsed.args = rest
           /\ IF Accepts(Handler, rest)
              THEN /\ CalledNow
                   /\ events'[Len(events')].name = Handler.name
                   /\ events'[Len(events')].in = ExpectedIn(Handler, rest)
              ELSE events'[Len(events')].ev # "call"

\* On every node the reparse works on the surface the loop parsed with, the
\* scoped flags added, leaves an end of the tokens, and the hook and the
\* handler come after it, on the heap it left.
ReparseThenHandler ==
    /\ pc = "execute" /\ ~Reparsed.panic /\ Reparsed.err = Nil
       => /\ IsSuffixOf(Reparsed.args, arguments)
          /\ Reparsed.args # <<>> /\ Len(Reparsed.args) < Len(arguments)
                /\ arguments[Len(arguments) - Len(Reparsed.args)] # t_dashdash
                => ~(Len(Reparsed.args[1]) >= 2 /\ Reparsed.args[1][1] = "-")
    /\ pc = "execute" /\ CalledNow
       => /\ AtBinding
          /\ events'[Len(events')].in = ExpectedIn(Handler, Reparsed.args)

\* C25: flags of the terminal node may follow the command token: the tokens
\* between the command token and the first positional argument are parsed
\* into the flag surface of the node, a later occurrence of a flag overrides
\* an earlier one, the hook observes the final value and the handler
\* receives only the tokens after those flags.
C25_FlagsAfterCommand ==
    [][IntFlagsAfterCommand /\ ReparseThenHandler]_vars

\* C25 witness: [--intflag=11, opone, --intflag=10, test] ended with
\* IntFlag = 10, seen by the hook, and called OpOne("test").
C25_Witness ==
    /\ pc = "done"
    /\ commandLine = <<t_intflag_11, t_opone, t_intflag_10, t_test>>
    /\ heap["app"].IntFlag = 10
    /\ heap["app"].postFlagHooked
    /\ Len(Calls) = 1
    /\ Calls[1].name = m_OpOne
    /\ Calls[1].in = <<t_test>>
    /\ heap["app"].count = 1
    /\ err = Nil

\* ---------------------------------------------------------------------------
\* C26: descriptions holding ',' and '='
\* ---------------------------------------------------------------------------

\* The tag is a flag or subcommand directive with a payload: the directive
\* is what precedes the first '=', the payload what follows it.
DirectiveTag(tag) ==
    /\ Len(SplitN2(tag, "=")) = 2
    /\ SplitN2(tag, "=")[1] \in {FlagDirective, SubcommandDirective}

\* The payload of such a tag, its name and its description.
PayloadOf(tag) == SplitN2(tag, "=")[2]

NameOf(tag) == SplitN2(PayloadOf(tag), ",")[1]

DescriptionOf(tag) == SplitN2(PayloadOf(tag), ",")[2]

\* The payload has a description, after its first comma.
Described(tag) == DirectiveTag(tag) /\ Len(SplitN2(PayloadOf(tag), ",")) = 2

\* The error is, at its root, the malformed-tag error of setupFlagSet.
IsMalformedTag(e) ==
    e # Nil /\ e[Len(e)] = "malformed tag on application"

\* The tag of field f of the node is accepted and, a flag, registered under
\* its name with its description as usage.
DescribedTagAccepted(node, f) ==
    LET r == setupFlagSet(heap, node, <<>>) IN
    /\ ~IsMalformedTag(r.err)
    /\ r.err = Nil /\ SplitN2(f.tag, "=")[1] = FlagDirective
          => /\ NameOf(f.tag) \in DOMAIN r.targets
             /\ r.targets[NameOf(f.tag)].field = f.name
             /\ parseFlagUsage(Split(f.tag, "=")[2]) = DescriptionOf(f.tag)

\* C26: the description of a flag or subcommand directive is everything
\* after the first comma of the payload and may hold ',' and '=': the tag is
\* accepted with no malformed-tag error, the flag is registered under the
\* name before the first comma and its usage is the full description.
C26_AsStated ==
    \A i \in 1..Len(Types[app.t].fields) :
        Described(Types[app.t].fields[i].tag)
            => DescribedTagAccepted(app, Types[app.t].fields[i])

\* The same for the descriptions that hold no '=': these the code accepts.
C26_CommasAccepted ==
    \A i \in 1..Len(Types[app.t].fields) :
        /\ Described(Types[app.t].fields[i].tag)
        /\ IndexOf(DescriptionOf(Types[app.t].fields[i].tag), "=") = 0
        => DescribedTagAccepted(app, Types[app.t].fields[i])

\* [--v, 1, run] on a node whose flag v is described "first, second" stored
\* 1 and called Run.
C26_CommasReached ==
    /\ pc = "done"
    /\ root = Ptr("DescCommas", "commas")
    /\ commandLine = <<t_v, t_1, t_run>>
    /\ heap["commas"].V = 1
    /\ Len(Calls) = 1
    /\ err = Nil

\* [--w, 1, run] on a node whose flag w is described "a=b" ended on the
\* error of GetFlagSet with nothing stored and nothing called.
C26_EqualsRejected ==
    /\ pc = "done"
    /\ root = Ptr("DescEquals", "equals")
    /\ commandLine = <<t_w, t_1, t_run>>
    /\ heap["equals"].W = 0
    /\ Calls = <<>>
    /\ err # Nil

\* ---------------------------------------------------------------------------
\* C27: integers are coerced within the range of their width
\* ---------------------------------------------------------------------------

\* The integer kinds, and for each the type of a fixed size it has the
\* range of on the build: int and uint are as wide as the build makes them.
IntegerKinds == OtherIntKinds \cup {"int64"}

SizedAs(kind) ==
    CASE kind = "int"  -> IF intSize = 32 THEN "int32" ELSE "int64"
      [] kind = "uint" -> IF intSize = 32 THEN "uint32" ELSE "uint64"
      [] OTHER -> kind

\* The integer the token denotes lies in the range of the kind.
InRange(kind, token) == SizedAs(kind) \in HoldingKinds(token)

\* The token is written as a base-10 integer: an optional sign, then digits
\* only.
IsDecimalText(token) ==
    LET ds == IF token # <<>> /\ token[1] \in {"+", "-"} THEN Tail(token)
              ELSE token
    IN  ds # <<>> /\ \A i \in 1..Len(ds) : ds[i] \in Digits

\* The coercion of a numeral to an integer kind succeeds exactly when its
\* number is in the range of the kind, and then gives that number, of that
\* kind; out of the range it is an error.
CoercedInRange(kind, token) ==
    LET p == ParseString(intSize, kind, token) IN
    IF InRange(kind, token)
    THEN p.err = Nil /\ p.type = kind /\ p.val = NumberOf(token)
    ELSE p.err # Nil

\* A coercion of a numeral that succeeds gives the number of the numeral, of
\* the kind, and that number is in the range of the kind.
CoercedOnlyInRange(kind, token) ==
    LET p == ParseString(intSize, kind, token) IN
    p.err = Nil
    => InRange(kind, token) /\ p.type = kind /\ p.val = NumberOf(token)

\* C27: coercing a token to a signed or unsigned integer type of width w
\* succeeds only if its base-10 value lies in the range of the type; a value
\* out of the range (300 for 8 bits, a negative one for an unsigned type) is
\* a coercion error, never a wrapped or truncated value.  Stated for every
\* integer kind, the range of int and uint being the one they have on the
\* build.
C27_AsStated ==
    \A i \in 1..Len(commandLine) : \A kind \in IntegerKinds :
        commandLine[i] \in Numerals
        => CoercedOnlyInRange(kind, commandLine[i])

\* On a build whose int has 32 bits, [plain, 4294967296] called Plain, which
\* takes an int, with 0 and RunCLI returned no error; 3000000000 is coerced
\* to the int -1294967296 and 4294967296 to the uint 0.
C27_Truncated ==
    /\ pc = "done"
    /\ intSize = 32
    /\ root = Ptr("IntWidths", "widths")
    /\ commandLine = <<t_plain, t_two32>>
    /\ Len(Calls) = 1
    /\ Calls[1].name = m_Plain
    /\ Calls[1].in = <<0>>
    /\ err = Nil
    /\ ParseString(32, "int", t_3000000000).err = Nil
    /\ ParseString(32, "int", t_3000000000).val = 0 - 1294967296
    /\ ParseString(32, "uint", t_two32).err = Nil
    /\ ParseString(32, "uint", t_two32).val = 0

\* The kinds whose conversion after the parse keeps the number: every kind
\* of a fixed size and, where int has 64 bits, int and uint.
ExactKinds ==
    IF intSize = 64 THEN IntegerKinds ELSE IntegerKinds \ {"int", "uint"}

\* A handler of the IntSizes and IntWidths fixtures (Small takes an int8,
\* Tiny a uint8, Plain an int, Natural a uint) whose parameter is of such a
\* kind is called only with a number of the range of its parameter, the one
\* its token denotes; a run given a numeral out of that range ends on an
\* error with no call.
SizedHandlers ==
    root.t \in {"IntSizes", "IntWidths"} /\ pc = "done" /\ cmd # <<>>
    /\ Handler.in[1] \in ExactKinds
    => LET kind == Handler.in[1]
           args == Reparsed.args
       IN  /\ \A j \in 1..Len(Calls) :
                /\ args[1] \in Numerals
                /\ InRange(kind, args[1])
                /\ Calls[j].in[1] = NumberOf(args[1])
           /\ Len(args) = 1 /\ args[1] \in Numerals
                 /\ ~InRange(kind, args[1])
                 => Calls = <<>> /\ err # Nil

\* What holds of the claim: for every kind whose conversion keeps the
\* number, a numeral is coerced exactly when its number is in the range of
\* the kind, and a coercion that gives a value of the kind comes from a
\* numeral in that range.
C27_ExactKinds ==
    /\ \A i \in 1..Len(commandLine) : \A kind \in ExactKinds :
          /\ commandLine[i] \in Numerals => CoercedInRange(kind, commandLine[i])
          /\ ParseString(intSize, kind, commandLine[i]).err = Nil
             /\ ParseString(intSize, kind, commandLine[i]).type = kind
                => /\ IsDecimalText(commandLine[i])
                   /\ commandLine[i] \in Numerals
                   /\ InRange(kind, commandLine[i])
    /\ SizedHandlers

\* [small, 300], Small taking an int8, ended on an error with no call.
C27_OutOfRange ==
    /\ pc = "done"
    /\ root = Ptr("IntSizes", "sizes")
    /\ commandLine = <<t_small, t_300>>
    /\ cmd = t_small
    /\ ParseString(intSize, "int8", t_300).err # Nil
    /\ Calls = <<>>
    /\ err # Nil

\* [tiny, --, -1], Tiny taking a uint8, ended on an error with no call.
C27_NegativeUnsigned ==
    /\ pc = "done"
    /\ root = Ptr("IntSizes", "sizes")
    /\ commandLine = <<t_tiny, t_dashdash, t_minus_1>>
    /\ cmd = t_tiny
    /\ Calls = <<>>
    /\ err # Nil

\* [tiny, 128] called Tiny(128); 128 is out of the range of an int8.
C27_InRange ==
    /\ pc = "done"
    /\ root = Ptr("IntSizes", "sizes")
    /\ commandLine = <<t_tiny, t_128>>
    /\ Len(Calls) = 1
    /\ Calls[1].name = m_Tiny
    /\ Calls[1].in = <<128>>
    /\ ParseString(intSize, "int8", t_128).err # Nil
    /\ err = Nil

\* ---------------------------------------------------------------------------
\* C28: one handler at most, and what RunCLI returns with and without it
\* ---------------------------------------------------------------------------

\* The errors RunCLI makes itself: those of the configuration (the flag
\* surface of a node does not build) and those of the dispatch.
IsDispatchError(e) ==
    /\ e # Nil
    /\ e[1] \in {"withStack", "failed to search for subcommand",
                 "failed to find possible method", "failed to setup flags",
                 "failed to run application"}

\* C28: in a run of RunCLI at most one handler is invoked, at most once, as
\* the last thing dispatched; RunCLI returns nil only if exactly one handler
\* was invoked and returned no error; and when RunCLI returns an error of the
\* dispatch or of the configuration, no handler was invoked.
C28_OneHandler ==
    /\ Len(Calls) <= 1
    /\ Calls # <<>> => events[Len(events)].ev = "call" /\ Terminated
    /\ pc = "done" /\ err = Nil => Len(Calls) = 1 /\ Calls[1].ret = Nil
    /\ pc = "done" /\ IsDispatchError(err) => Calls = <<>>
    /\ pc = "done" /\ Calls # <<>> => err = Calls[1].ret
    /\ pc = "done" /\ Calls = <<>> => IsDispatchError(err)

\* C28 witness: [subapp, opthree, extra] reached SubApplication, located
\* OpThree, which takes no argument, and returned the dispatch error with no
\* handler invoked.
C28_Witness ==
    /\ pc = "done"
    /\ root = Ptr("Application", "app")
    /\ Len(commandLine) = 3
    /\ commandLine[1] = t_subapp
    /\ commandLine[2] = t_opthree
    /\ cmd = t_opthree
    /\ err = <<"failed to run application">>
    /\ Calls = <<>>

\* [opone, test] invoked one handler, which returned no error, and RunCLI
\* returned nil.
C28_NilReturned ==
    /\ pc = "done"
    /\ commandLine = <<t_opone, t_test>>
    /\ Len(Calls) = 1
    /\ Calls[1].name = m_OpOne
    /\ Calls[1].ret = Nil
    /\ err = Nil

\* ---------------------------------------------------------------------------
\* C29: the type of the value ParseString returns
\* ---------------------------------------------------------------------------

\* The kinds of the fields and parameters of the fixtures ParseString
\* supports.
SupportedKinds ==
    {"bool", "string", "int", "int8", "int16", "int32", "int64", "duration",
     "uint", "uint8", "uint16", "uint32", "uint64", "float64", "slice",
     "map", "*bool"}

\* The execute stage is about to pass to the handler a value whose type is
\* not the parameter's.
MismatchAtCall ==
    /\ AtBinding
    /\ BindArgs(shortEscapes, Handler, Reparsed.args).err = Nil
    /\ LET c == CoerceArgs(intSize, Handler, BindArgs(shortEscapes, Handler, Reparsed.args).args,
                           1, <<>>)
       IN  ~c.panic /\ c.err = Nil /\ c.types # Handler.in

\* C29: whenever ParseString(t, s) succeeds the value returned has exactly
\* the type t, so that neither the assignment to a flag-bound field in
\* SetField nor the call of the handler in runCommand fails on a type
\* mismatch.
C29_AsStated ==
    /\ \A k \in 1..Len(commandLine) : \A kind \in SupportedKinds :
          ParseString(intSize, kind, commandLine[k]).err = Nil
              => ParseString(intSize, kind, commandLine[k]).type = kind
    /\ \A name \in DOMAIN flagset : \A k \in 1..Len(commandLine) :
          ~TargetSet(intSize, heap, flagset[name], commandLine[k]).panic
    /\ ~MismatchAtCall

\* The same for the kinds other than int64 and time.Duration.
C29_OtherKinds ==
    \A k \in 1..Len(commandLine) :
        \A kind \in SupportedKinds \ {"int64", "duration"} :
            ParseString(intSize, kind, commandLine[k]).err = Nil
                => ParseString(intSize, kind, commandLine[k]).type = kind

\* [--dur, 0] on FlagDurationTester: the token parses to an int64, the field
\* is a time.Duration, and the run ended in the panic of field.Set.
C29_SetPanicked ==
    /\ pc = "panic"
    /\ root = Ptr("FlagDurationTester", "fdt")
    /\ commandLine = <<t_dur, t_0>>
    /\ ParseString(intSize, "duration", t_0).err = Nil
    /\ ParseString(intSize, "duration", t_0).type = "int64"
    /\ Calls = <<>>

\* [count, 2s] on DurationRunner, Count taking an int64: the token
\* parses to a time.Duration and the run ended in the panic of the call.
C29_CallPanicked ==
    /\ pc = "panic"
    /\ root = Ptr("DurationRunner", "durt")
    /\ commandLine = <<t_count, t_2s>>
    /\ ParseString(intSize, "int64", t_2s).err = Nil
    /\ ParseString(intSize, "int64", t_2s).type = "duration"
    /\ Calls = <<>>

\* ---------------------------------------------------------------------------
\* C30: a hook that returns an error ends the dispatch
\* ---------------------------------------------------------------------------

\* The hook of the node, run on heap h, returns an error.
HookFails(h, node) ==
    /\ Types[node.t].hook
    /\ ~Call(HookBody(node), h, node, <<>>).panic
    /\ Call(HookBody(node), h, node, <<>>).out[1].err # Nil

\* The step ends the run on an error right after the hook of the current
\* node: no descent, no later hook, no handler.
EndsOnHook ==
    /\ pc' = "done"
    /\ err' # Nil
    /\ app' = app
    /\ events'[Len(events')] = Event("hook", app, <<>>, <<>>, Nil)
    /\ CallsOf(events') = <<>>

\* The hook of an ancestor fails: the first remaining token names a
\* subcommand of the node and its hook returns an error.
AncestorHookFails ==
    /\ pc = "route"
    /\ NamesSubcommand
    /\ HookFails(heap, app)

\* The hook of the terminal node fails: the command is located, its flags
\* parse again and the hook returns an error.
TerminalHookFails ==
    /\ pc = "execute"
    /\ ~Reparsed.panic
    /\ Reparsed.err = Nil
    /\ HookFails(Reparsed.heap, app)

\* C30: if a PostFlagParse hook returns an error, RunCLI returns a non-nil
\* error and nothing further is dispatched: after an ancestor's hook there
\* is no descent into the subcommand and no later hook, after the terminal
\* node's hook the handler is not invoked; a run that has returned takes no
\* further step.
C30_HookError ==
    [][/\ AncestorHookFails
          => /\ EndsOnHook
             /\ arguments' = arguments
             /\ cumulativeCommands' = cumulativeCommands
             /\ events' = Append(events, Event("hook", app, <<>>, <<>>, Nil))
       /\ TerminalHookFails => EndsOnHook
       /\ ~Terminated]_vars

\* C30 witness: on a root whose hook fails when its flag n is 1,
\* [--n, 1, sub, run] ended on the error of the hook at the root: the child
\* was not entered, its hook did not run and Run was not called.
C30_Witness ==
    /\ pc = "done"
    /\ root = Ptr("HookRoot", "hooked")
    /\ commandLine = <<t_n, t_1, t_sub, t_run>>
    /\ heap["hooked"].N = 1
    /\ app = root
    /\ arguments = <<t_sub, t_run>>
    /\ events[Len(events)] = Event("hook", root, <<>>, <<>>, Nil)
    /\ \A j \in 1..Len(events) : events[j].node = root
    /\ Calls = <<>>
    /\ err = WithStack(WithStack(errTest))

\* [sub, --x, 1, run], the hook of the child failing when its flag x is 1:
\* both hooks ran, Run was not called, and RunCLI returned an error.
C30_TerminalReached ==
    /\ pc = "done"
    /\ root = Ptr("HookRoot", "hooked")
    /\ commandLine = <<t_sub, t_x, t_1, t_run>>
    /\ heap["hooked_Sub"].X = 1
    /\ cmd = t_run
    /\ Len(SelectSeq(events, LAMBDA e : e.ev = "hook")) = 2
    /\ events[Len(events)] = Event("hook", app, <<>>, <<>>, Nil)
    /\ Calls = <<>>
    /\ err # Nil

=============================================================================
